---- MODULE Spec2Model ----
(***************************************************************************)
(* HoloNet session protocol engine (src/minimal_cli/server.py): the        *)
(* per-connection receive path, transmit worker and frame pump around the  *)
(* bounded outbound queue, the auth gate and the op dispatch.              *)
(*                                                                         *)
(* Conventions.                                                            *)
(*  - A Python str is a sequence of atoms (Seq of TLA+ strings); a token   *)
(*    is spelled character by character, an op name is one atom.           *)
(*  - A JSON value is a record [t, n, s]: t is the type tag, n the number  *)
(*    (an int, or hundredths for a float), s the string.                       *)
(*  - Time is in milliseconds since a scaled epoch.                        *)
(***************************************************************************)
EXTENDS Integers, Sequences, FiniteSets, TLC

(***************************************************************************)
(* JSON values                                                             *)
(***************************************************************************)
Absent    == [t |-> "absent", n |-> 0, s |-> <<>>]
JNull     == [t |-> "null",   n |-> 0, s |-> <<>>]
JInt(i)   == [t |-> "int",    n |-> i, s |-> <<>>]
JFloat(d) == [t |-> "float",  n |-> d, s |-> <<>>]
JStr(str) == [t |-> "str",    n |-> 0, s |-> str]

\* Python truthiness of obj.get(key) (None when the key is absent).
Truthy(v) ==
    CASE v.t = "absent" -> FALSE
      [] v.t = "null"   -> FALSE
      [] v.t = "int"    -> v.n # 0
      [] v.t = "float"  -> v.n # 0
      [] v.t = "str"    -> v.s # <<>>

\* obj.get(key, default)
Get(v, default) == IF v.t = "absent" THEN default ELSE v

IsStr(v) == v.t = "str"
IsNum(v) == v.t \in {"int", "float"}

\* str atoms that int() parses, with their value
NumericAtoms == {"33"}
AtomValue(a) == IF a = "33" THEN 33 ELSE 0

\* int(v) raises TypeError / ValueError
PyIntRaises(v) ==
    CASE v.t = "int"   -> FALSE
      [] v.t = "float" -> FALSE
      [] v.t = "str"   -> ~(Len(v.s) = 1 /\ v.s[1] \in NumericAtoms)
      [] OTHER         -> TRUE

\* int(v): a float is truncated toward zero, a numeric str is parsed
PyInt(v) ==
    CASE v.t = "int"   -> v.n
      [] v.t = "float" -> IF v.n >= 0 THEN v.n \div 100 ELSE -((-v.n) \div 100)
      [] v.t = "str"   -> AtomValue(v.s[1])
      [] OTHER         -> 0

Max(a, b) == IF a >= b THEN a ELSE b
Min(a, b) == IF a <= b THEN a ELSE b

(***************************************************************************)
(* Keyed hash and base64 (library functions, modelled over a two-letter    *)
(* base64 alphabet and a two-byte digest)                                  *)
(***************************************************************************)
KeyCode(key) ==
    CASE key = ""  -> 0
      [] key = "k" -> 1
      [] key = "j" -> 2
      [] OTHER     -> 3

CharCode(c) ==
    CASE c = "A" -> 1
      [] c = "B" -> 2
      [] c = "." -> 3
      [] c = "c1" -> 1
      [] c = "c2" -> 2
      [] OTHER   -> 0

RECURSIVE WeightedSum(_, _)
WeightedSum(msg, i) ==
    IF i > Len(msg) THEN 0 ELSE CharCode(msg[i]) * i + WeightedSum(msg, i + 1)

RECURSIVE PlainSum(_, _)
PlainSum(msg, i) ==
    IF i > Len(msg) THEN 0 ELSE CharCode(msg[i]) + PlainSum(msg, i + 1)

\* hmac.new(key, msg, sha256).digest(): a deterministic digest of two
\* bytes that depends on the key and on every character of the message.
HmacDigest(key, msg) ==
    << 4  * ((KeyCode(key) + WeightedSum(msg, 1)) % 2),
       16 * ((KeyCode(key) \div 2 + PlainSum(msg, 1)) % 2) >>

\* .hexdigest(): two hex digits per byte
HexDigit(d) == IF d = 0 THEN "0" ELSE IF d = 1 THEN "1" ELSE "4"
HexDigest(bytes) ==
    << HexDigit(bytes[1] \div 16), HexDigit(bytes[1] % 16),
       HexDigit(bytes[2] \div 16), HexDigit(bytes[2] % 16) >>

B64Alphabet == {"A", "B"}
B64Value(c) == IF c = "A" THEN 0 ELSE 1

\* binascii.a2b_base64 in non-strict mode: characters outside the alphabet
\* are discarded, '=' completes a quantum once enough of them are seen, and
\* the scan stops there.  The result is [ok, sextets]: the data sextets
\* consumed, or ok = FALSE for "Incorrect padding" / a dangling sextet.
RECURSIVE B64Scan(_, _, _, _)
B64Scan(str, i, pads, acc) ==
    LET quad_pos == Len(acc) % 4 IN
    IF i > Len(str)
    THEN [ok |-> quad_pos = 0, sextets |-> acc]
    ELSE IF str[i] = "="
         THEN IF quad_pos >= 2 /\ quad_pos + pads + 1 >= 4
              THEN [ok |-> TRUE, sextets |-> acc]
              ELSE B64Scan(str, i + 1, IF quad_pos >= 2 THEN pads + 1 ELSE pads, acc)
         ELSE IF str[i] \in B64Alphabet
              THEN B64Scan(str, i + 1, 0, Append(acc, B64Value(str[i])))
              ELSE B64Scan(str, i + 1, pads, acc)

\* The bytes of a sextet sequence: 4 sextets give 3 bytes, a final group of
\* 2 or 3 sextets gives 1 or 2 bytes.
RECURSIVE SextetsToBytes(_, _)
SextetsToBytes(sx, i) ==
    LET left == Len(sx) - i + 1
        b1 == sx[i] * 4 + sx[i + 1] \div 16
        b2 == (sx[i + 1] % 16) * 16 + sx[i + 2] \div 4
        b3 == (sx[i + 2] % 4) * 64 + sx[i + 3]
    IN  IF left < 2 THEN <<>>
        ELSE IF left = 2 THEN <<b1>>
        ELSE IF left = 3 THEN <<b1, b2>>
        ELSE <<b1, b2, b3>> \o SextetsToBytes(sx, i + 4)

RECURSIVE Repeat(_, _)
Repeat(c, k) == IF k = 0 THEN <<>> ELSE <<c>> \o Repeat(c, k - 1)

\* base64.urlsafe_b64decode(s): [ok, bytes]
urlsafe_b64decode(str) ==
    LET r == B64Scan(str, 1, 0, <<>>) IN
    [ok |-> r.ok, bytes |-> IF r.ok THEN SextetsToBytes(r.sextets, 1) ELSE <<>>]

\* The unpadded base64 text of a two-byte digest (what a client puts
\* in the third part of a token).
B64Letter(v) == IF v = 0 THEN "A" ELSE "B"
B64EncodeDigest(bytes) ==
    << B64Letter(bytes[1] \div 4),
       B64Letter((bytes[1] % 4) * 16 + bytes[2] \div 16),
       B64Letter((bytes[2] % 16) * 4) >>

\* str.split(sep): the parts of str between the separators
RECURSIVE Split(_, _)
Split(str, sep) ==
    IF \A i \in 1..Len(str) : str[i] # sep
    THEN <<str>>
    ELSE LET p == CHOOSE i \in 1..Len(str) :
                      str[i] = sep /\ \A j \in 1..(i - 1) : str[j] # sep
         IN  <<SubSeq(str, 1, p - 1)>> \o Split(SubSeq(str, p + 1, Len(str)), sep)

(***************************************************************************)
(* Settings (server.py:64-94) and scaled bounds                            *)
(***************************************************************************)
FRAME_HZ_MIN == 1
FRAME_HZ_MAX == 10
CLIENT_HEARTBEAT_TIMEOUT_SECS == 20
DELTA_BATCH_WINDOW_MS == 45
MMR_BUCKET_SIZE == 16
PHI_ENGINE_depth == 32

\* Capacity of ClientSession.tx_queue (256 in the source), scaled down.
QueueMaxSize == 2
\* time.time() at accept, in ms (the epoch is scaled so that a seconds
\* timestamp and a milliseconds timestamp still differ by a factor 1000).
T0 == 100000
\* The magnitude above which a client timestamp is read as milliseconds
\* (1e10 in the source), scaled with the epoch.
MsEpochThreshold == 10000
\* The DELTA_BATCH_MAX setting of the runs explored (the default is 4).
BatchMax == 1
\* Bounds on the length of a run: inbound messages, clock ticks, pump rounds.
MaxMsgs == 1
MaxTicks == 1
MaxPumpRounds == 2

Tasks == {"rx", "pump"}

VARIABLES
    AUTH_REQUIRED,      \* os.getenv("AUTH_REQUIRED") == "1"
    AUTH_SECRET,        \* challenge/response secret, "" when not configured
    AUTH_JWT_SECRET,    \* bearer-token secret, "" when not configured
    DELTA_BATCH_MAX,    \* int(os.getenv("DELTA_BATCH_MAX", "4"))
    session,            \* ClientSession fields
    tx_queue,           \* session.tx_queue: the payloads held, oldest first
    putters,            \* tasks suspended in tx_queue.put(), not yet woken
    METRICS,            \* process-wide counters
    task,               \* position and locals of the receive path and the pump
    tx,                 \* position and locals of the transmit worker
    conn,               \* the websocket connection: "open", "closed" (by the
                        \* client or for an invalid path) or "going_away"
                        \* (closed by the server when it shuts down)
    now,                \* time.time() in ms
    current_bucket,     \* len(MMR.current_bucket)
    leaves,             \* len(MMR.leaves)
    frame_seq,          \* PHI_ENGINE.frame_seq
    next_id,            \* history: number of payloads placed on tx_queue so far
    wire,               \* history: what the connection was handed last
    client,             \* history: the snapshot a client holds that applied,
                        \* in order, every frame placed on tx_queue so far
    budget,             \* inbound messages, clock ticks and pump rounds still allowed
    MMR,                \* the ledger in full: leaves, nodes, peak_hashes, current_bucket
    logger,             \* position and locals of each session's log_event call
    proof,              \* outcome of the last MMR.get_proof call
    anchored,           \* history: the anchors _simulate_anchor has logged
    recorded,           \* history: number of events handed to log_event so far
    builder,            \* position and locals of each create_enhanced_holoframe
                        \* call running on the worker pool
    built               \* history: the frames returned, in the order in which
                        \* they went to their sessions' queues

vars == << AUTH_REQUIRED, AUTH_SECRET, AUTH_JWT_SECRET, DELTA_BATCH_MAX, session, tx_queue,
           putters, METRICS, task, tx, conn, now, current_bucket, leaves,
           frame_seq, next_id, wire, client, budget,
           MMR, logger, proof, anchored, recorded, builder, built >>

\* The ledger in full and the calls on it; the runs of one session keep
\* the lengths current_bucket and leaves only
ledger == << MMR, logger, proof, anchored, recorded >>

\* The variables of the frame builds followed call by call
builds == << builder, built >>

(***************************************************************************)
(* Auth helpers (server.py:226-240)                                        *)
(***************************************************************************)
\* compute_hmac(challenge): hex digest of the challenge under AUTH_SECRET
compute_hmac(challenge) == HexDigest(HmacDigest(AUTH_SECRET, challenge))

\* A signing input that leaves the payload part out
SigningInputHeaderOnly(parts) == parts[1]

\* signing_input = f"{header_b64}.{payload_b64}"
SigningInput(parts) == parts[1] \o <<".">> \o parts[2]

\* verify_jwt(token): any exception gives False
verify_jwt(token) ==
    IF AUTH_JWT_SECRET = "" THEN FALSE
    ELSE IF ~IsStr(token) THEN FALSE
    ELSE LET parts == Split(token.s, ".") IN
         IF Len(parts) # 3 THEN FALSE
         ELSE LET expected == HmacDigest(AUTH_JWT_SECRET, SigningInput(parts))
                  sig_b64  == parts[3]
                  pad      == Repeat("=", (-Len(sig_b64)) % 4)
                  provided == urlsafe_b64decode(sig_b64 \o pad)
              IN  provided.ok /\ provided.bytes = expected

\* The auth branch of handle_op up to the assignment of ok (server.py:457-468):
\* "ok", "fail", or "raise" when compute_hmac / compare_digest raises.
AuthOutcome(obj) ==
    LET challenge == Get(obj.challenge, JStr(<<>>))
        response  == Get(obj.response, JStr(<<>>))
        token     == Get(obj.token, JStr(<<>>))
    IN  IF Truthy(token) /\ AUTH_JWT_SECRET # ""
        THEN IF verify_jwt(token) THEN "ok" ELSE "fail"
        ELSE IF AUTH_SECRET # ""
        THEN IF ~IsStr(challenge) \/ ~IsStr(response) THEN "raise"
             ELSE IF response.s = compute_hmac(challenge.s) THEN "ok" ELSE "fail"
        ELSE "ok"

(***************************************************************************)
(* Payloads, frames, snapshots                                             *)
(***************************************************************************)
\* A snapshot (matrix) maps cell keys to cells.  The model observes the
\* cells at the probe positions that lie inside the view window.
EmptyMatrix == [k \in {} |-> 0]
Probes == { [key |-> "0,0", x |-> 0, y |-> 0], [key |-> "130,40", x |-> 130, y |-> 40] }
CellValues == {0, 1}
KeysOf(width, height) == { p.key : p \in { q \in Probes : q.x < width /\ q.y < height } }
MatricesOf(keys) == [keys -> CellValues]

NoFrame == [delta |-> FALSE, cells |-> EmptyMatrix, seq |-> 0,
            width |-> 0, height |-> 0, z |-> 0]

\* An outbound payload; id is its position in the order of placement on
\* tx_queue (history, not on the wire).
NoPayload == [op |-> "", reason |-> "", ok |-> FALSE, view |-> <<>>,
              sent |-> FALSE, data |-> NoFrame, id |-> 0]
Payload(op) == [NoPayload EXCEPT !.op = op]
ErrorPayload(reason) == [NoPayload EXCEPT !.op = "error", !.reason = reason]

\* Locals of one send_frame_if_due call
NoSf == [caller |-> "", now |-> 0, keys |-> {}, matrix |-> EmptyMatrix,
         delta |-> EmptyMatrix, use_delta |-> FALSE, batched |-> EmptyMatrix,
         changed |-> FALSE, start |-> 0, iter |-> 0, nxt |-> EmptyMatrix,
         payload_matrix |-> EmptyMatrix]

(***************************************************************************)
(* Inbound messages                                                        *)
(***************************************************************************)
NoObj == [op |-> Absent, ts |-> Absent, phiRate |-> Absent, challenge |-> Absent,
          response |-> Absent, token |-> Absent, width |-> Absent,
          height |-> Absent, z |-> Absent]
Op(name) == [NoObj EXCEPT !.op = JStr(<<name>>)]
NoMsg == [kind |-> "none", json |-> "", obj |-> NoObj]
TextObj(obj) == [kind |-> "text", json |-> "obj", obj |-> obj]

KnownOps == {"heartbeat", "auth", "view", "requestFrame", "status"}
OpName(v) == IF IsStr(v) /\ Len(v.s) = 1 THEN v.s[1] ELSE ""

(***************************************************************************)
(* The state as one record, so that a handler can be run to its next       *)
(* suspension point                                                        *)
(***************************************************************************)
World == [session |-> session, tx_queue |-> tx_queue, putters |-> putters,
          METRICS |-> METRICS, task |-> task, tx |-> tx,
          current_bucket |-> current_bucket, leaves |-> leaves,
          frame_seq |-> frame_seq, next_id |-> next_id, client |-> client]

Commit(w) ==
    /\ session' = w.session
    /\ tx_queue' = w.tx_queue
    /\ putters' = w.putters
    /\ METRICS' = w.METRICS
    /\ task' = w.task
    /\ tx' = w.tx
    /\ current_bucket' = w.current_bucket
    /\ leaves' = w.leaves
    /\ frame_seq' = w.frame_seq
    /\ next_id' = w.next_id
    /\ client' = w.client
    /\ UNCHANGED << ledger, builds >>

Count(w, counter) == [w EXCEPT !.METRICS[counter] = @ + 1]
At(w, t, label) == [w EXCEPT !.task[t].at = label]

(***************************************************************************)
(* Cadence (server.py:251-258, 313-320)                                    *)
(***************************************************************************)
\* The rate without the final clamp into [FRAME_HZ_MIN, FRAME_HZ_MAX]
FrameRateUnclamped(phi_rate, latency_ms) ==
    LET base == FRAME_HZ_MIN * 1000
                  + (FRAME_HZ_MAX - FRAME_HZ_MIN) * 10 * Max(0, Min(100, phi_rate))
    IN  IF latency_ms > 300 THEN (base * 5) \div 10
        ELSE IF latency_ms > 150 THEN (base * 7) \div 10
        ELSE base

\* The rate in mHz behind frame_interval_seconds(phi_rate, latency_ms);
\* phi_rate is in hundredths.  interval = 1000000 / FrameRateMilliHz ms.
FrameRateMilliHz(phi_rate, latency_ms) ==
    LET base == FRAME_HZ_MIN * 1000
                  + (FRAME_HZ_MAX - FRAME_HZ_MIN) * 10 * Max(0, Min(100, phi_rate))
        hz   == IF latency_ms > 300 THEN (base * 5) \div 10
                ELSE IF latency_ms > 150 THEN (base * 7) \div 10
                ELSE base
    IN  Max(FRAME_HZ_MIN * 1000, Min(FRAME_HZ_MAX * 1000, hz))

\* frame_interval_seconds(phi_rate, latency_ms) = 1.0 / hz, in microseconds
\* rounded down
frame_interval_seconds(phi_rate, latency_ms) ==
    1000000000 \div FrameRateMilliHz(phi_rate, latency_ms)

\* Silence measured from the last frame instead of the last heartbeat
HeartbeatSilentSinceFrame(s, t) == t - s.last_frame_ts > CLIENT_HEARTBEAT_TIMEOUT_SECS * 1000

\* now - session.last_heartbeat_ts > CLIENT_HEARTBEAT_TIMEOUT_SECS
HeartbeatSilent(s, t) == t - s.last_heartbeat_ts > CLIENT_HEARTBEAT_TIMEOUT_SECS * 1000

\* elapsed >= factor/10 * interval, where interval is floored at 0.75 s
\* for a heartbeat-silent session (factor 8: the send gate, 10: the sleep)
IntervalElapsed(s, t, elapsed, factor) ==
    /\ elapsed * FrameRateMilliHz(s.phi_rate, s.latency_ms) >= factor * 100000
    /\ HeartbeatSilent(s, t) => elapsed * 10 >= factor * 750

(***************************************************************************)
(* Delta (proto_phi.py:330-366)                                            *)
(***************************************************************************)
\* A diff that resends the whole current matrix
calculate_delta_Resend(current_matrix, last_matrix) ==
    [delta |-> current_matrix, is_delta |-> last_matrix # EmptyMatrix]

\* A diff that only looks at the keys of the previous matrix
calculate_delta_KeysOfPrevious(current_matrix, last_matrix) ==
    IF last_matrix = EmptyMatrix
    THEN [delta |-> current_matrix, is_delta |-> FALSE]
    ELSE LET changed == { k \in DOMAIN current_matrix \cap DOMAIN last_matrix :
                            current_matrix[k] # last_matrix[k] }
         IN  [delta |-> [k \in changed |-> current_matrix[k]], is_delta |-> TRUE]

\* calculate_delta(current_matrix, last_matrix): [delta, is_delta]
calculate_delta(current_matrix, last_matrix) ==
    IF last_matrix = EmptyMatrix
    THEN [delta |-> current_matrix, is_delta |-> FALSE]
    ELSE LET changed == { k \in DOMAIN current_matrix :
                            k \notin DOMAIN last_matrix
                            \/ current_matrix[k] # last_matrix[k] }
         IN  [delta |-> [k \in changed |-> current_matrix[k]], is_delta |-> TRUE]

\* dict.update
Update(d, e) == [k \in DOMAIN d \cup DOMAIN e |-> IF k \in DOMAIN e THEN e[k] ELSE d[k]]

(***************************************************************************)
(* Outbound queue (asyncio.Queue) and enqueue (server.py:292-297)          *)
(***************************************************************************)
\* What a client that holds snapshot held has after applying frame
Applied(held, frame) == IF frame.delta THEN Update(held, frame.cells) ELSE frame.cells

\* The client's snapshot once payload is on the queue (history)
Followed(w, payload) ==
    IF payload.op = "frame" THEN Applied(w.client, payload.data) ELSE w.client

\* A queue that is never found full
QueueNeverFull(w) == FALSE

\* Queue.full()
QueueFull(w) == Len(w.tx_queue) >= QueueMaxSize

\* A put that places the item at the front of the queue
PutNowaitInFront(w, payload) ==
    [w EXCEPT !.tx_queue = << [payload EXCEPT !.id = w.next_id + 1] >> \o @,
              !.next_id = @ + 1,
              !.client = Followed(w, payload)]

\* Queue.put_nowait(item)
PutNowait(w, payload) ==
    [w EXCEPT !.tx_queue = Append(@, [payload EXCEPT !.id = w.next_id + 1]),
              !.next_id = @ + 1,
              !.client = Followed(w, payload)]

\* A queue that hands out its newest item first
GetNewest(w) ==
    [w EXCEPT !.tx_queue = SubSeq(@, 1, Len(@) - 1),
              !.putters = IF @ = <<>> THEN @ ELSE Tail(@),
              !.tx.payload = w.tx_queue[Len(w.tx_queue)]]

\* A get that wakes no putter
GetWakesNone(w) ==
    [w EXCEPT !.tx_queue = Tail(@),
              !.tx.payload = Head(w.tx_queue)]

\* "payload = await session.tx_queue.get()" on a non-empty queue: removes
\* the oldest item and wakes the first putter
GetNowait(w) ==
    [w EXCEPT !.tx_queue = Tail(@),
              !.putters = IF @ = <<>> THEN @ ELSE Tail(@),
              !.tx.payload = Head(w.tx_queue)]

RECURSIVE RunCont(_, _, _)
RECURSIVE Enqueue(_, _, _, _)
RECURSIVE log_event(_, _, _)
RECURSIVE SfReturn(_, _, _)
RECURSIVE send_frame_if_due(_, _, _)

\* enqueue(session, payload) called by task t, which goes on with cont.
\* Queue.put() suspends the caller while the queue is full; it never raises
\* QueueFull, so the except branch of enqueue is never taken.
Enqueue(w, t, payload, cont) ==
    IF QueueFull(w)
    THEN [w EXCEPT !.task[t].at = "put", !.task[t].payload = payload,
                   !.task[t].cont = cont, !.putters = Append(@, t)]
    ELSE RunCont(PutNowait(w, payload), t, cont)

\* log_event(session_id, event_type, data) (server.py:217-223): the bucket
\* grows by one event; a full bucket is appended off the event loop.
log_event(w, t, cont) ==
    LET w1 == [w EXCEPT !.current_bucket = @ + 1] IN
    IF w1.current_bucket >= MMR_BUCKET_SIZE
    THEN [w1 EXCEPT !.task[t].at = "to_thread", !.task[t].cont = cont]
    ELSE RunCont(w1, t, cont)

\* The return of send_frame_if_due to its caller
SfReturn(w, t, sent) ==
    LET caller == w.task[t].sf.caller
        w0 == [w EXCEPT !.task[t].sf = NoSf]
    IN  CASE caller = "pump" ->
                 [w0 EXCEPT !.task[t].at = "sleep", !.task[t].sleep_start = now]
          [] caller = "view" -> log_event(w0, t, "idle")
          [] caller = "request" ->
                 Enqueue(w0, t, [Payload("ack") EXCEPT !.sent = sent], "log")

\* send_frame_if_due up to its first suspension (server.py:312-326)
send_frame_if_due(w, t, caller) ==
    LET s == w.session
        w0 == [w EXCEPT !.task[t].sf = [NoSf EXCEPT !.caller = caller, !.now = now,
                                         !.keys = KeysOf(s.width, s.height)]]
    IN  IF ~IntervalElapsed(s, now, now - s.last_frame_ts, 8)
        THEN SfReturn(w0, t, FALSE)
        ELSE At(w0, t, "phi_gen")

\* What send_frame_if_due does once the frame is on the queue
\* (server.py:364-371)
FrameDone(w, t) ==
    LET sf == w.task[t].sf
        w1 == Count(w, "frames_total")
        w2 == IF sf.use_delta
              THEN IF sf.payload_matrix # EmptyMatrix
                   THEN Count(w1, "frames_delta_total") ELSE w1
              ELSE Count(w1, "frames_full_total")
    IN  [w2 EXCEPT !.session.last_frame_ts = sf.now]

\* Run task t on from a continuation point until it suspends
RunCont(w, t, cont) ==
    CASE cont = "idle" ->
             [w EXCEPT !.task[t].at = "idle", !.task[t].payload = NoPayload,
                       !.task[t].cont = ""]
      [] cont = "log" -> log_event(w, t, "idle")
      [] cont = "view_sf" -> send_frame_if_due(w, t, "view")
      [] cont = "frame_done" -> SfReturn(FrameDone(w, t), t, TRUE)
      [] cont = "hello" ->
             Enqueue([w EXCEPT !.tx.at = "get", !.task["pump"].at = "start"],
                     t, Payload("hello"), "auth_needed")
      [] cont = "auth_needed" ->
             IF AUTH_REQUIRED
             THEN Enqueue(w, t, Payload("auth_needed"), "idle")
             ELSE RunCont(w, t, "idle")
      [] cont = "closed" ->
             [w EXCEPT !.task[t].at = "closed", !.task[t].payload = NoPayload,
                       !.task[t].cont = ""]

(***************************************************************************)
(* Teardown (server.py:545-561)                                            *)
(***************************************************************************)
\* A finally block that does not cancel the pump
TeardownKeepsPump(w) ==
    [w EXCEPT !.session.running = FALSE,
              !.task["rx"].at = "td_tx", !.task["rx"].payload = NoPayload,
              !.task["rx"].cont = "", !.task["rx"].sf = NoSf]

\* The finally block up to "await task" for the pump: the pump is cancelled
\* where it is suspended.
Teardown(w) ==
    [w EXCEPT !.session.running = FALSE,
              !.task["pump"] = [@ EXCEPT !.at = "done", !.payload = NoPayload,
                                         !.cont = "", !.sf = NoSf],
              !.putters = SelectSeq(@, LAMBDA x : x # "pump"),
              !.task["rx"].at = "td_tx", !.task["rx"].payload = NoPayload,
              !.task["rx"].cont = "", !.task["rx"].sf = NoSf]

\* except Exception in handle_ws, then the finally block
Raise(w) == Teardown(Count(w, "errors_total"))

(***************************************************************************)
(* handle_op (server.py:423-499)                                           *)
(***************************************************************************)
\* A gate that lets heartbeats through
AuthGateExemptsHeartbeat(w, op) ==
    AUTH_REQUIRED /\ ~w.session.auth_ok /\ OpName(op) \notin {"auth", "heartbeat"}

\* The auth gate: the op is rejected with unauth_required
AuthGateRejects(w, op) ==
    AUTH_REQUIRED /\ ~w.session.auth_ok /\ OpName(op) # "auth"

\* A client timestamp in ms: a value above the threshold is already in ms
ClientTsMs(v) ==
    LET ms_unit == IF v.t = "int" THEN v.n > MsEpochThreshold
                   ELSE v.n > MsEpochThreshold * 100
    IN  IF v.t = "int" THEN (IF ms_unit THEN v.n ELSE v.n * 1000)
        ELSE (IF ms_unit THEN v.n \div 100 ELSE v.n * 10)

\* A reported phiRate in hundredths
PhiHundredths(v) == IF v.t = "int" THEN v.n * 100 ELSE v.n

\* A heartbeat handler whose rejection does not look at the size of the
\* change
HeartbeatRejectsAnyChange(w, obj, coin) ==
    LET w1 == [Count(w, "heartbeat_total") EXCEPT !.session.last_heartbeat_ts = now]
        phi == PhiHundredths(obj.phiRate)
        w3 == IF IsNum(obj.phiRate)
              THEN IF coin
                   THEN [w1 EXCEPT !.session.phi_rate = w1.session.last_phi_rate]
                   ELSE [w1 EXCEPT !.session.phi_rate = Max(0, Min(100, phi)),
                                   !.session.last_phi_rate = Max(0, Min(100, phi))]
              ELSE w1
    IN  Enqueue(w3, "rx", Payload("pong"), "log")

Heartbeat(w, obj, coin) ==
    LET w1 == [Count(w, "heartbeat_total") EXCEPT !.session.last_heartbeat_ts = now]
        w2 == IF IsNum(obj.ts)
              THEN [w1 EXCEPT !.session.latency_ms = Max(0, now - ClientTsMs(obj.ts)),
                              !.METRICS.client_latency_ms = Min(512, @ + 1)]
              ELSE w1
        phi == PhiHundredths(obj.phiRate)
        delta_phi == IF phi >= w2.session.last_phi_rate
                     THEN phi - w2.session.last_phi_rate
                     ELSE w2.session.last_phi_rate - phi
        w3 == IF IsNum(obj.phiRate)
              THEN IF delta_phi > 10 /\ coin
                   THEN [w2 EXCEPT !.session.phi_rate = w2.session.last_phi_rate]
                   ELSE [w2 EXCEPT !.session.phi_rate = Max(0, Min(100, phi)),
                                   !.session.last_phi_rate = Max(0, Min(100, phi))]
              ELSE w2
    IN  Enqueue(w3, "rx", Payload("pong"), "log")

Auth(w, obj) ==
    LET outcome == AuthOutcome(obj)
        w1 == [w EXCEPT !.session.auth_ok = (outcome = "ok")]
        w2 == IF outcome = "ok" THEN w1 ELSE Count(w1, "auth_fail_total")
    IN  IF outcome = "raise" THEN Raise(w)
        ELSE Enqueue(w2, "rx", [Payload("auth_result") EXCEPT !.ok = (outcome = "ok")], "log")

\* A clamp without its lower limit
ClampAbove(lo, hi, v) == Min(hi, v)

\* max(lo, min(hi, v))
Clamp(lo, hi, v) == Max(lo, Min(hi, v))

View(w, obj) ==
    LET rw == Get(obj.width, JInt(w.session.width))
        rh == Get(obj.height, JInt(w.session.height))
        rz == Get(obj.z, JInt(w.session.z_plane))
        w1 == [w EXCEPT !.session.width = Clamp(16, 240, PyInt(rw)),
                        !.session.height = Clamp(8, 80, PyInt(rh)),
                        !.session.z_plane = Clamp(0, PHI_ENGINE_depth - 1, PyInt(rz))]
        ack == [Payload("ack") EXCEPT
                  !.view = <<w1.session.width, w1.session.height, w1.session.z_plane>>]
    IN  IF PyIntRaises(rw) \/ PyIntRaises(rh) \/ PyIntRaises(rz) THEN Raise(w)
        ELSE Enqueue(w1, "rx", ack, "view_sf")

\* status_snapshot(session) (server.py:397-421)
StatusPayload(w) ==
    [Payload("status") EXCEPT
       !.view = <<w.session.width, w.session.height, w.session.z_plane>>]

handle_op(w, obj, coin) ==
    LET op == obj.op
        w1 == Count(w, "msg_rx_total")
    IN  IF ~Truthy(op) THEN RunCont(w, "rx", "idle")
        ELSE IF AuthGateRejects(w1, op)
        THEN Enqueue(w1, "rx", ErrorPayload("unauth_required"), "idle")
        ELSE CASE OpName(op) = "heartbeat" -> Heartbeat(w1, obj, coin)
               [] OpName(op) = "auth" -> Auth(w1, obj)
               [] OpName(op) = "view" -> View(w1, obj)
               [] OpName(op) = "requestFrame" -> send_frame_if_due(w1, "rx", "request")
               [] OpName(op) = "status" -> Enqueue(w1, "rx", StatusPayload(w1), "idle")
               [] OTHER -> Enqueue(w1, "rx", ErrorPayload("unknown_operation"), "idle")

\* The body of the receive loop for one message (server.py:535-543)
OnMessage(w, msg, coin) ==
    CASE msg.kind = "binary" -> RunCont(w, "rx", "idle")
      [] msg.json = "bad" -> Enqueue(w, "rx", ErrorPayload("bad_json"), "idle")
      [] msg.json = "nonobj" -> Raise(w)
      [] OTHER -> handle_op(w, msg.obj, coin)

(***************************************************************************)
(* send_frame_if_due after its executor calls (server.py:327-363)          *)
(***************************************************************************)
\* The end of the batching loop: the frame is built off the event loop
AfterBatch(w, t) ==
    LET sf == w.task[t].sf IN
    [w EXCEPT !.task[t].at = "phi_build",
              !.task[t].sf.payload_matrix =
                  IF sf.changed THEN sf.batched ELSE EmptyMatrix]

\* One pass of "for _ in range(DELTA_BATCH_MAX)" up to its executor call
BatchBody(w, t) ==
    LET sf == w.task[t].sf
        w1 == IF sf.delta # EmptyMatrix
              THEN [w EXCEPT !.task[t].sf.batched = Update(sf.batched, sf.delta),
                             !.task[t].sf.changed = TRUE]
              ELSE w
    IN  IF now - sf.start >= DELTA_BATCH_WINDOW_MS
        THEN AfterBatch(w1, t)
        ELSE [w1 EXCEPT !.task[t].at = "phi_gen2",
                        !.task[t].sf.keys = KeysOf(w1.session.width, w1.session.height)]

\* generate_frame returned matrix m; calculate_delta is called on it
OnGenerated(w, t, m) ==
    LET d == calculate_delta(m, w.session.last_matrix) IN
    [w EXCEPT !.task[t].at = "phi_delta", !.task[t].sf.matrix = m,
              !.task[t].sf.delta = d.delta, !.task[t].sf.use_delta = d.is_delta]

\* calculate_delta returned
OnDelta(w, t) ==
    LET sf == w.task[t].sf IN
    IF sf.use_delta
    THEN BatchBody([w EXCEPT !.task[t].sf.batched = EmptyMatrix,
                             !.task[t].sf.changed = FALSE,
                             !.task[t].sf.start = now,
                             !.task[t].sf.iter = 0], t)
    ELSE [w EXCEPT !.task[t].at = "phi_build",
                   !.task[t].sf.payload_matrix = sf.matrix]

\* generate_frame returned nxt_matrix inside the batching loop
OnGenerated2(w, t, m) ==
    [w EXCEPT !.task[t].at = "phi_delta2", !.task[t].sf.nxt = m,
              !.task[t].sf.delta = calculate_delta(m, w.session.last_matrix).delta]

\* calculate_delta returned inside the batching loop
OnDelta2(w, t) ==
    LET sf == w.task[t].sf
        w1 == IF sf.delta # EmptyMatrix
              THEN [w EXCEPT !.session.last_matrix = sf.nxt] ELSE w
        w2 == [w1 EXCEPT !.task[t].sf.iter = @ + 1]
    IN  IF sf.iter + 1 < DELTA_BATCH_MAX THEN BatchBody(w2, t) ELSE AfterBatch(w2, t)

\* create_enhanced_holoframe returned: the frame is enqueued
OnFrameBuilt(w, t) ==
    LET sf == w.task[t].sf
        s == w.session
        frame == [delta |-> sf.use_delta, cells |-> sf.payload_matrix,
                  seq |-> w.frame_seq + 1, width |-> s.width,
                  height |-> s.height, z |-> s.z_plane]
        w1 == [w EXCEPT !.frame_seq = @ + 1]
        w2 == IF ~sf.use_delta \/ sf.payload_matrix # EmptyMatrix
              THEN [w1 EXCEPT !.session.last_matrix = sf.matrix] ELSE w1
    IN  Enqueue(w2, t, [Payload("frame") EXCEPT !.data = frame], "frame_done")

(***************************************************************************)
(* Initial state                                                           *)
(***************************************************************************)
NewSession ==
    [auth_ok |-> FALSE, width |-> 120, height |-> 36, z_plane |-> 0,
     last_matrix |-> EmptyMatrix, last_heartbeat_ts |-> T0, last_frame_ts |-> 0,
     last_phi_rate |-> 50, phi_rate |-> 50, latency_ms |-> 0, running |-> TRUE]

NewTask == [at |-> "none", payload |-> NoPayload, cont |-> "",
            sf |-> NoSf, sleep_start |-> 0, hz |-> 0, silent |-> FALSE]

NewMetrics ==
    [ws_connections_current |-> 0, ws_connections_total |-> 0,
     msg_rx_total |-> 0, msg_tx_total |-> 0, heartbeat_total |-> 0,
     frames_total |-> 0, frames_delta_total |-> 0, frames_full_total |-> 0,
     errors_total |-> 0, auth_fail_total |-> 0, backpressure_drops_total |-> 0,
     client_latency_ms |-> 0]

\* Events already in the pending audit bucket (recorded by other sessions)
InitialBuckets == {MMR_BUCKET_SIZE - 2}

\* The callers of log_event: handle_ws and handle_op of each session
Sessions == {"a", "b", "c"}

NewLogger == [at |-> "idle", bucket |-> <<>>, idx |-> -1, level |-> <<>>, peaks |-> <<>>]
NoProof == [leaf_idx |-> 0, outcome |-> "", leaf |-> <<>>]

\* MMR = QuaternaryMMR() (server.py:159-164, 215) before any event
NewLedger ==
    /\ MMR = [leaves |-> <<>>, nodes |-> <<>>, peak_hashes |-> <<>>,
              current_bucket |-> <<>>]
    /\ logger = [c \in Sessions |-> NewLogger]
    /\ proof = NoProof
    /\ anchored = <<>>
    /\ recorded = 0

\* The tasks that call create_enhanced_holoframe through _phi_call: the pump
\* and the receive path of a session, and the pump of another session
Builders == {"a.pump", "a.rx", "b.pump"}
SessionOf(b) == IF b = "b.pump" THEN "b" ELSE "a"

NewBuilder == [at |-> "idle", loaded |-> 0, seq |-> 0]

\* PHI_ENGINE before any frame (proto_phi.py:209): no build under way
NewBuilds ==
    /\ builder = [b \in Builders |-> NewBuilder]
    /\ built = <<>>

\* The state before handle_ws runs for a new connection, for the settings,
\* the pending bucket and the run bounds given.
InitWith(required, secrets, jwt_secrets, batch_max, buckets, allowance) ==
    /\ AUTH_REQUIRED \in required
    /\ AUTH_SECRET \in secrets
    /\ AUTH_JWT_SECRET \in jwt_secrets
    /\ DELTA_BATCH_MAX = batch_max
    /\ session = NewSession
    /\ tx_queue = <<>>
    /\ putters = <<>>
    /\ METRICS = NewMetrics
    /\ task = [t \in Tasks |-> IF t = "rx" THEN [NewTask EXCEPT !.at = "accept"]
                                             ELSE NewTask]
    /\ tx = [at |-> "none", payload |-> NoPayload]
    /\ conn = "open"
    /\ now = T0
    /\ current_bucket \in buckets
    /\ leaves = 0
    /\ frame_seq = 0
    /\ next_id = 0
    /\ wire = [last_id |-> 0]
    /\ client = EmptyMatrix
    /\ budget = allowance
    /\ NewLedger
    /\ NewBuilds

Init ==
    InitWith(BOOLEAN, {""}, {""}, BatchMax, InitialBuckets,
             [msgs |-> MaxMsgs, ticks |-> MaxTicks, rounds |-> MaxPumpRounds])

cfg == << AUTH_REQUIRED, AUTH_SECRET, AUTH_JWT_SECRET, DELTA_BATCH_MAX >>

(***************************************************************************)
(* Inbound alphabet                                                        *)
(***************************************************************************)
Challenge1 == <<"c1">>
GoodResponse(key) == HexDigest(HmacDigest(key, Challenge1))
GoodToken(key) ==
    <<"A", ".", "B", ".">> \o B64EncodeDigest(HmacDigest(key, <<"A", ".", "B">>))

HeartbeatMsgs ==
    { [Op("heartbeat") EXCEPT !.ts = ts, !.phiRate = phi] :
        ts \in {Absent, JInt(now - 200), JInt(now \div 1000 - 1), JStr(<<"x">>)},
        phi \in {Absent, JFloat(90), JInt(2), JFloat(-50)} }

AuthMsgs ==
    { Op("auth"),
      [Op("auth") EXCEPT !.challenge = JStr(Challenge1),
                         !.response = JStr(GoodResponse("k"))],
      [Op("auth") EXCEPT !.challenge = JStr(Challenge1),
                         !.response = JStr(GoodResponse("j"))],
      [Op("auth") EXCEPT !.challenge = JStr(Challenge1), !.response = JInt(5)],
      [Op("auth") EXCEPT !.challenge = JNull],
      [Op("auth") EXCEPT !.token = JStr(GoodToken("j"))],
      [Op("auth") EXCEPT !.token = JStr(GoodToken("j") \o <<"!", "=">>)],
      [Op("auth") EXCEPT !.token = JStr(GoodToken("k"))],
      [Op("auth") EXCEPT !.token = JStr(<<"A", ".", "B">>)],
      [Op("auth") EXCEPT !.token = JInt(7)] }

ViewMsgs ==
    { Op("view"),
      [Op("view") EXCEPT !.width = JInt(999), !.height = JInt(999), !.z = JInt(999)],
      [Op("view") EXCEPT !.width = JInt(-3), !.height = JInt(0), !.z = JInt(-1)],
      [Op("view") EXCEPT !.width = JFloat(2070), !.z = JInt(5)],
      [Op("view") EXCEPT !.height = JStr(<<"33">>)],
      [Op("view") EXCEPT !.width = JStr(<<"abc">>)],
      [Op("view") EXCEPT !.z = JNull] }

OtherMsgs ==
    { Op("requestFrame"), Op("status"), Op("bogus"), NoObj,
      [NoObj EXCEPT !.op = JStr(<<>>)], [NoObj EXCEPT !.op = JInt(5)],
      [NoObj EXCEPT !.op = JNull] }

Inbound ==
    { TextObj(o) : o \in HeartbeatMsgs \cup AuthMsgs \cup ViewMsgs \cup OtherMsgs }
    \cup { [kind |-> "binary", json |-> "", obj |-> NoObj],
           [kind |-> "text", json |-> "bad", obj |-> NoObj],
           [kind |-> "text", json |-> "nonobj", obj |-> NoObj] }

(***************************************************************************)
(* Receive path: handle_ws (server.py:502-561)                             *)
(***************************************************************************)
\* The connection is accepted: path check, session, counters, connect event
RxAccept(path_ok) ==
    /\ task["rx"].at = "accept"
    /\ IF path_ok
       THEN /\ Commit(log_event(
                  [Count(Count(World, "ws_connections_current"), "ws_connections_total")
                      EXCEPT !.session = [NewSession EXCEPT !.last_heartbeat_ts = now]],
                  "rx", "hello"))
            /\ UNCHANGED conn
       ELSE /\ Commit(RunCont(World, "rx", "closed"))
            /\ conn' = "closed"
    /\ UNCHANGED << cfg, now, wire, budget >>

\* "async for msg in connection" delivers the next message
RxRecv(msg, coin) ==
    /\ task["rx"].at = "idle"
    /\ conn = "open"
    /\ budget.msgs > 0
    /\ Commit(OnMessage(World, msg, coin))
    /\ budget' = [budget EXCEPT !.msgs = @ - 1]
    /\ UNCHANGED << cfg, conn, now, wire >>

\* A receive loop that ends only when the client closed the connection
RxConnClosedByClient ==
    /\ task["rx"].at = "idle"
    /\ conn = "closed"
    /\ Commit(Teardown(World))
    /\ UNCHANGED << cfg, conn, now, wire, budget >>

\* The receive loop ends because the connection is closed
RxConnClosed ==
    /\ task["rx"].at = "idle"
    /\ conn # "open"
    /\ Commit(Teardown(World))
    /\ UNCHANGED << cfg, conn, now, wire, budget >>

\* The pump task is finished: the transmit worker is cancelled unless it is
\* done, the counter is decremented and the disconnect event recorded
RxTeardownTx ==
    /\ task["rx"].at = "td_tx"
    /\ Commit(log_event(
          [World EXCEPT !.tx = [at |-> "done", payload |-> NoPayload],
                        !.METRICS.ws_connections_current = @ - 1],
          "rx", "closed"))
    /\ UNCHANGED << cfg, conn, now, wire, budget >>

\* A task suspended in tx_queue.put() was woken: it puts, or waits again
PutResume(t) ==
    /\ task[t].at = "put"
    /\ \A i \in 1..Len(putters) : putters[i] # t
    /\ Commit(Enqueue(World, t, task[t].payload, task[t].cont))
    /\ UNCHANGED << cfg, conn, now, wire, budget >>

\* asyncio.to_thread(MMR.append_bucket, ...) returned: the bucket is reset
ToThreadDone(t) ==
    /\ task[t].at = "to_thread"
    /\ Commit(RunCont([World EXCEPT !.leaves = @ + 1, !.current_bucket = 0],
                      t, task[t].cont))
    /\ UNCHANGED << cfg, conn, now, wire, budget >>

(***************************************************************************)
(* Executor calls of send_frame_if_due returning to task t                 *)
(***************************************************************************)
PhiGenDone(t, m) ==
    /\ task[t].at = "phi_gen"
    /\ m \in MatricesOf(task[t].sf.keys)
    /\ Commit(OnGenerated(World, t, m))
    /\ UNCHANGED << cfg, conn, now, wire, budget >>

PhiDeltaDone(t) ==
    /\ task[t].at = "phi_delta"
    /\ Commit(OnDelta(World, t))
    /\ UNCHANGED << cfg, conn, now, wire, budget >>

PhiGen2Done(t, m) ==
    /\ task[t].at = "phi_gen2"
    /\ m \in MatricesOf(task[t].sf.keys)
    /\ Commit(OnGenerated2(World, t, m))
    /\ UNCHANGED << cfg, conn, now, wire, budget >>

PhiDelta2Done(t) ==
    /\ task[t].at = "phi_delta2"
    /\ Commit(OnDelta2(World, t))
    /\ UNCHANGED << cfg, conn, now, wire, budget >>

PhiBuildDone(t) ==
    /\ task[t].at = "phi_build"
    /\ Commit(OnFrameBuilt(World, t))
    /\ UNCHANGED << cfg, conn, now, wire, budget >>

(***************************************************************************)
(* Frame pump (server.py:377-383)                                          *)
(***************************************************************************)
\* One pass of the pump loop up to its first suspension
PumpRoundBody(w) ==
    IF ~w.session.running
    THEN At(w, "pump", "done")
    ELSE send_frame_if_due(
             [w EXCEPT !.task["pump"].sleep_start = 0,
                       !.task["pump"].hz =
                           FrameRateMilliHz(w.session.phi_rate, w.session.latency_ms),
                       !.task["pump"].silent = HeartbeatSilent(w.session, now)],
             "pump", "pump")

PumpStart ==
    /\ task["pump"].at = "start"
    /\ budget.rounds > 0
    /\ Commit(PumpRoundBody(World))
    /\ budget' = [budget EXCEPT !.rounds = @ - 1]
    /\ UNCHANGED << cfg, conn, now, wire >>

\* asyncio.sleep(interval) is over
PumpWake ==
    /\ task["pump"].at = "sleep"
    /\ budget.rounds > 0
    /\ LET elapsed == now - task["pump"].sleep_start IN
          /\ elapsed * task["pump"].hz >= 1000000
          /\ task["pump"].silent => elapsed >= 750
    /\ Commit(PumpRoundBody(World))
    /\ budget' = [budget EXCEPT !.rounds = @ - 1]
    /\ UNCHANGED << cfg, conn, now, wire >>

(***************************************************************************)
(* Transmit worker (server.py:299-309)                                     *)
(***************************************************************************)
\* tx_queue.get() returns the oldest payload; ws.send() is called with it
TxGet ==
    /\ tx.at = "get"
    /\ tx_queue # <<>>
    /\ Commit([GetNowait(World) EXCEPT !.tx.at = "send"])
    /\ UNCHANGED << cfg, conn, now, wire, budget >>

\* The top of "while session.running"
TxLoop(w) ==
    [w EXCEPT !.tx = [at |-> IF w.session.running THEN "get" ELSE "done",
                      payload |-> NoPayload]]

\* ws.send() succeeded
TxSendDone ==
    /\ tx.at = "send"
    /\ conn = "open"
    /\ Commit(TxLoop(Count(World, "msg_tx_total")))
    /\ wire' = [last_id |-> tx.payload.id]
    /\ UNCHANGED << cfg, conn, now, budget >>

\* A failed send that is not counted
TxSendFailUncounted ==
    /\ tx.at = "send"
    /\ conn # "open"
    /\ Commit([World EXCEPT !.tx = [at |-> "sleep", payload |-> NoPayload]])
    /\ UNCHANGED << cfg, conn, now, wire, budget >>

\* ws.send() raised (connection closed): counted, then asyncio.sleep(0.02)
TxSendFail ==
    /\ tx.at = "send"
    /\ conn # "open"
    /\ Commit([Count(World, "errors_total") EXCEPT !.tx = [at |-> "sleep", payload |-> NoPayload]])
    /\ UNCHANGED << cfg, conn, now, wire, budget >>

TxSleepDone ==
    /\ tx.at = "sleep"
    /\ Commit(TxLoop(World))
    /\ UNCHANGED << cfg, conn, now, wire, budget >>

(***************************************************************************)
(* Environment                                                             *)
(***************************************************************************)
\* The client closes the connection
ClientClose ==
    /\ conn = "open"
    /\ task["rx"].at \notin {"accept", "closed"}
    /\ conn' = "closed"
    /\ UNCHANGED << cfg, session, tx_queue, putters, METRICS, task, tx, now,
                    current_bucket, leaves, frame_seq, next_id, wire, client, budget, ledger, builds >>

Tick(d) ==
    /\ budget.ticks > 0
    /\ task["rx"].at \notin {"accept", "closed"}
    /\ now' = now + d
    /\ budget' = [budget EXCEPT !.ticks = @ - 1]
    /\ UNCHANGED << cfg, session, tx_queue, putters, METRICS, task, tx, conn,
                    current_bucket, leaves, frame_seq, next_id, wire, client, ledger, builds >>

AllMatrices == MatricesOf({p.key : p \in Probes}) \cup MatricesOf({"0,0"})

\* Steps of the receive path other than the arrival of a message
RxSteps ==
    \/ \E path_ok \in BOOLEAN : RxAccept(path_ok)
    \/ RxConnClosed
    \/ RxTeardownTx

\* Resumptions of a task suspended in put() or to_thread()
QueueResumptions ==
    \/ \E t \in Tasks : PutResume(t)
    \/ \E t \in Tasks : ToThreadDone(t)

\* Resumptions of a task suspended in an executor call outside the
\* batching loop
FrameResumptions ==
    \/ \E t \in Tasks, m \in AllMatrices : PhiGenDone(t, m)
    \/ \E t \in Tasks : PhiDeltaDone(t)
    \/ \E t \in Tasks : PhiBuildDone(t)

\* Resumptions of a task suspended in an executor call of the batching loop
BatchResumptions ==
    \/ \E t \in Tasks, m \in AllMatrices : PhiGen2Done(t, m)
    \/ \E t \in Tasks : PhiDelta2Done(t)

\* Resumptions of a task suspended in put(), to_thread() or an executor call
Resumptions ==
    \/ QueueResumptions
    \/ FrameResumptions
    \/ BatchResumptions

TxSteps ==
    \/ TxGet
    \/ TxSendDone
    \/ TxSendFail
    \/ TxSleepDone

PumpSteps ==
    \/ PumpStart
    \/ PumpWake

TickSteps == {1000}

\* The messages of the runs that exercise the queue and the three tasks
CoreMsgs ==
    { TextObj(Op("requestFrame")), TextObj(Op("status")), TextObj(Op("auth")),
      [kind |-> "text", json |-> "bad", obj |-> NoObj] }

Next ==
    \/ \E msg \in CoreMsgs, coin \in BOOLEAN : RxRecv(msg, coin)
    \/ RxSteps
    \/ Resumptions
    \/ PumpSteps
    \/ TxSteps
    \/ ClientClose
    \/ \E d \in TickSteps : Tick(d)

Spec == Init /\ [][Next]_vars

(***************************************************************************)
(* The runs in which the pump has not been scheduled yet: the receive path *)
(* handles RxMsgs messages of the whole alphabet, under every setting of   *)
(* the two secrets.  The first frame of a session is a full frame, so the  *)
(* batching loop is not entered in these runs.                             *)
(***************************************************************************)
RxMsgs == 1

InitRx ==
    InitWith(BOOLEAN, {"", "k"}, {"", "j"}, BatchMax, InitialBuckets,
             [msgs |-> RxMsgs, ticks |-> MaxTicks, rounds |-> 0])

NextRx ==
    \/ \E msg \in Inbound, coin \in BOOLEAN : RxRecv(msg, coin)
    \/ RxSteps
    \/ QueueResumptions
    \/ FrameResumptions
    \/ TxSteps
    \/ ClientClose
    \/ \E d \in TickSteps : Tick(d)

SpecRx == InitRx /\ [][NextRx]_vars

(***************************************************************************)
(* The runs of an open server (no authentication) whose client sends       *)
(* ViewSeqMsgs view and status messages one after the other.               *)
(***************************************************************************)
ViewSeqMsgs == 2

InitView ==
    InitWith({FALSE}, {""}, {""}, BatchMax, InitialBuckets,
             [msgs |-> ViewSeqMsgs, ticks |-> MaxTicks, rounds |-> 0])

NextView ==
    \/ \E obj \in ViewMsgs \cup {Op("status")}, coin \in BOOLEAN :
            RxRecv(TextObj(obj), coin)
    \/ RxSteps
    \/ Resumptions
    \/ TxSteps
    \/ ClientClose
    \/ \E d \in TickSteps : Tick(d)

SpecView == InitView /\ [][NextView]_vars

(***************************************************************************)
(* The runs in which a client of a server with a bearer-token secret sends *)
(* one auth message carrying a token: any string of at most MaxTokenLen    *)
(* characters over the token characters.                                   *)
(***************************************************************************)
MaxTokenLen == 6
TokenChars == {".", "A", "B", "=", "!"}
Tokens == UNION { [1..n -> TokenChars] : n \in 1..MaxTokenLen }
TokenMsg(token) == TextObj([Op("auth") EXCEPT !.token = JStr(token)])

InitJwt ==
    InitWith({TRUE}, {""}, {"j", "k"}, BatchMax, InitialBuckets,
             [msgs |-> 1, ticks |-> 0, rounds |-> 0])

NextJwt ==
    \/ \E token \in Tokens : RxRecv(TokenMsg(token), FALSE)
    \/ RxSteps
    \/ QueueResumptions
    \/ TxSteps
    \/ ClientClose

SpecJwt == InitJwt /\ [][NextJwt]_vars

(***************************************************************************)
(* Backpressure and ordering of the outbound queue                         *)
(***************************************************************************)
\* C1: an enqueue made while the outbound queue is full returns without
\* suspending its caller (the message is dropped and counted): no task is
\* ever suspended in tx_queue.put().
C1_EnqueueOnFullDropsWithoutSuspending ==
    \A t \in Tasks : task[t].at # "put"

\* A task called enqueue on a full queue: it is suspended in put(), its
\* payload is kept and nothing was counted as dropped.
C1_CallerSuspendedOnFullQueue ==
    \E t \in Tasks :
        /\ task[t].at = "put"
        /\ task[t].payload # NoPayload
        /\ Len(tx_queue) = QueueMaxSize
        /\ METRICS.backpressure_drops_total = 0

\* C2: in every reachable state the outbound queue holds at most its
\* capacity, whatever the interleaving of the receive path, the pump and
\* the transmit worker.
C2_QueueWithinCapacity == Len(tx_queue) <= QueueMaxSize

\* The queue is at capacity while the receive path and the pump both
\* attempt to enqueue.
C2_BothProducersAtCapacity ==
    /\ Len(tx_queue) = QueueMaxSize
    /\ \A t \in Tasks : task[t].at = "put"

\* C3: only the transmit worker hands payloads to the connection, and it
\* hands them over in the order they were enqueued: the connection's last
\* payload changes only when the worker's send completes, to the payload
\* the worker took, which was enqueued after every payload sent before and
\* before every payload still queued.
C3_SingleSenderInEnqueueOrder ==
    [][ /\ wire' # wire =>
            /\ tx.at = "send" /\ tx'.at # "send"
            /\ wire'.last_id = tx.payload.id
            /\ wire'.last_id > wire.last_id
        /\ \A i \in 1..Len(tx_queue') :
              /\ tx_queue'[i].id > wire'.last_id
              /\ tx'.at = "send" =>
                    /\ tx_queue'[i].id > tx'.payload.id
                    /\ tx'.payload.id > wire'.last_id
              /\ i > 1 => tx_queue'[i].id > tx_queue'[i - 1].id ]_vars

\* Two payloads enqueued by different tasks have both been sent.
C3_TwoSentFromBothProducers ==
    /\ METRICS.msg_tx_total >= 2
    /\ METRICS.frames_total >= 1
    /\ wire.last_id >= 2

(***************************************************************************)
(* The receive path, message by message                                    *)
(***************************************************************************)
\* The receive loop awaits the next message of an open connection
Receiving == task["rx"].at = "idle" /\ conn = "open"

\* What the handling of obj leads to from the current state, up to the
\* handler's first suspension
Handled(obj) == OnMessage(World, TextObj(obj), FALSE)

\* The payloads the receive path enqueued, or is suspended enqueueing, on
\* the way from the current state to w2 (without their queue positions)
Answers(w2) ==
    LET queued == [i \in 1..(Len(w2.tx_queue) - Len(tx_queue)) |->
                      [w2.tx_queue[Len(tx_queue) + i] EXCEPT !.id = 0]]
    IN  IF w2.task["rx"].at = "put"
        THEN Append(queued, w2.task["rx"].payload)
        ELSE queued

\* In w2 the handler has returned, or will return without enqueueing more
HandlerDone(w2) ==
    LET rx == w2.task["rx"] IN
    \/ rx.at = "idle"
    \/ rx.at = "to_thread" /\ rx.cont = "idle"
    \/ rx.at = "put" /\ rx.cont \in {"idle", "log"}

InboundObjs == HeartbeatMsgs \cup AuthMsgs \cup ViewMsgs \cup OtherMsgs

C5_NoSuccessWithoutCredential ==
    (Receiving /\ ~session.auth_ok /\ (AUTH_SECRET # "" \/ AUTH_JWT_SECRET # "")) =>
        \A obj \in AuthMsgs :
            LET w2 == Handled(obj)
                valid_token == verify_jwt(obj.token)
                correct_response ==
                    /\ AUTH_SECRET # ""
                    /\ IsStr(obj.challenge) /\ IsStr(obj.response)
                    /\ obj.response.s = HexDigest(HmacDigest(AUTH_SECRET, obj.challenge.s))
            IN  (~valid_token /\ ~correct_response) =>
                    /\ ~w2.session.auth_ok
                    /\ \A i \in 1..Len(Answers(w2)) :
                          Answers(w2)[i].op = "auth_result" => ~Answers(w2)[i].ok

\* The positions of the dots of a token
DotsOf(token) == { i \in 1..Len(token) : token[i] = "." }

\* token has exactly three dot-separated parts and its third part, padded
\* to a multiple of four and decoded, is the keyed hash of the first two
\* parts joined by a dot under the bearer-token secret
SignedThreeParts(token) ==
    /\ Cardinality(DotsOf(token)) = 2
    /\ LET second  == CHOOSE i \in DotsOf(token) : \A j \in DotsOf(token) : j <= i
           signed  == SubSeq(token, 1, second - 1)
           third   == SubSeq(token, second + 1, Len(token))
           decoded == urlsafe_b64decode(third \o Repeat("=", (-Len(third)) % 4))
       IN  decoded.ok /\ decoded.bytes = HmacDigest(AUTH_JWT_SECRET, signed)

\* C6: with a bearer-token secret configured, an auth message carrying a
\* token is accepted (auth_result ok=true, session authenticated) if and
\* only if the token has exactly three dot-separated parts and its decoded
\* third part is the keyed hash of the first two joined by a dot; any other
\* token is rejected (auth_result ok=false, session unauthenticated).
C6_TokenAcceptedIffSigned ==
    (Receiving /\ AUTH_JWT_SECRET # "") =>
        \A token \in Tokens :
            LET w2 == OnMessage(World, TokenMsg(token), FALSE)
                ok == SignedThreeParts(token)
            IN  /\ w2.session.auth_ok = ok
                /\ Answers(w2) = << [Payload("auth_result") EXCEPT !.ok = ok] >>

\* A signed token was presented: the session is authenticated and the
\* positive auth_result is on the queue.
C6_SignedTokenAccepted ==
    /\ AUTH_JWT_SECRET # ""
    /\ session.auth_ok
    /\ METRICS.msg_rx_total = 1 /\ METRICS.auth_fail_total = 0
    /\ \E i \in 1..Len(tx_queue) : tx_queue[i].op = "auth_result" /\ tx_queue[i].ok

\* C7: every auth message, whatever its field values, is answered with
\* exactly one auth_result carrying the outcome; a failed auth increments
\* auth_fail_total by exactly 1 and does not end the session.
C7_EveryAuthAnswered ==
    Receiving =>
        \A obj \in AuthMsgs :
            LET w2 == Handled(obj) IN
            /\ Answers(w2) = << [Payload("auth_result") EXCEPT !.ok = w2.session.auth_ok] >>
            /\ HandlerDone(w2)
            /\ w2.session.running
            /\ w2.METRICS.auth_fail_total =
                  METRICS.auth_fail_total + (IF w2.session.auth_ok THEN 0 ELSE 1)

\* Text messages that are malformed: not JSON, JSON that is not an object,
\* a view whose width is not numeric
Malformed ==
    { [kind |-> "text", json |-> "bad", obj |-> NoObj],
      [kind |-> "text", json |-> "nonobj", obj |-> NoObj],
      TextObj([Op("view") EXCEPT !.width = JStr(<<"abc">>)]) }

\* C8: every malformed text message is answered with one error message,
\* the receive loop goes on with the next message and the session is not
\* torn down.
C8_ProtocolErrorsNonFatal ==
    Receiving =>
        \A msg \in Malformed :
            LET w2 == OnMessage(World, msg, FALSE) IN
            /\ Len(Answers(w2)) = 1
            /\ Answers(w2)[1].op = "error"
            /\ HandlerDone(w2)
            /\ w2.session.running
            /\ w2.METRICS.errors_total = METRICS.errors_total

\* The objects whose op is none of the five known ops, an object whose op
\* is missing or empty included
UnknownOpObjs == { obj \in InboundObjs : OpName(obj.op) \notin KnownOps }

\* C9: every object whose op is not one of the five known ops, including
\* an object whose op is missing or empty, is answered with exactly one
\* error reason=unknown_operation once the auth gate is passed, and no
\* session field changes.
C9_EveryUnknownOpAnswered ==
    (Receiving /\ (AUTH_REQUIRED => session.auth_ok)) =>
        \A obj \in UnknownOpObjs :
            LET w2 == Handled(obj) IN
            /\ Answers(w2) = << ErrorPayload("unknown_operation") >>
            /\ HandlerDone(w2)
            /\ w2.session = session

\* v brought into lo..hi
Within(lo, hi, v) == IF v < lo THEN lo ELSE IF v > hi THEN hi ELSE v

\* The value a view message asks for: int() of the field, or the current
\* value when the field is not supplied
Requested(v, current) == IF v = Absent THEN current ELSE PyInt(v)

\* C10: the session's width is always in [16,240], its height in [8,80]
\* and its depth plane in [0, depth-1]; a view message sets each to the
\* requested value clamped into its range (a field not supplied keeps its
\* current value) and the ack that answers it carries the clamped values.
C10_ViewClamped ==
    /\ session.width \in 16..240
    /\ session.height \in 8..80
    /\ session.z_plane \in 0..(PHI_ENGINE_depth - 1)
    /\ (Receiving /\ (AUTH_REQUIRED => session.auth_ok)) =>
          \A obj \in ViewMsgs :
              LET w2 == Handled(obj)
                  width  == Within(16, 240, Requested(obj.width, session.width))
                  height == Within(8, 80, Requested(obj.height, session.height))
                  z      == Within(0, PHI_ENGINE_depth - 1, Requested(obj.z, session.z_plane))
              IN  (\A v \in {obj.width, obj.height, obj.z} : v = Absent \/ ~PyIntRaises(v)) =>
                      /\ w2.session.width = width
                      /\ w2.session.height = height
                      /\ w2.session.z_plane = z
                      /\ Len(Answers(w2)) >= 1
                      /\ Answers(w2)[1] = [Payload("ack") EXCEPT !.view = <<width, height, z>>]

\* A second view message supplied a fractional width and a depth plane but
\* no height: the height of the first, clamped, is kept and the ack says so.
C10_SecondViewKeepsHeight ==
    /\ METRICS.msg_rx_total = 2
    /\ session.width = 20 /\ session.height = 80 /\ session.z_plane = 5
    /\ \E i \in 1..Len(tx_queue) : tx_queue[i].op = "ack" /\ tx_queue[i].view = <<20, 80, 5>>

(***************************************************************************)
(* Heartbeats and cadence                                                  *)
(***************************************************************************)
\* A heartbeat that passes the auth gate
Dispatched == AUTH_REQUIRED => session.auth_ok

NearestBound(v) == Max(0, Min(100, PhiHundredths(v)))

\* C11: the responsiveness value is within [0,1] in every reachable state;
\* a heartbeat that reports a value below 0 or above 1 stores the nearest
\* bound, whatever the random draw of the handler, and no message other
\* than a heartbeat changes the value.
C11_PhiRateClampedNeverRejected ==
    /\ session.phi_rate \in 0..100
    /\ Receiving =>
          \A obj \in InboundObjs, coin \in BOOLEAN :
              LET w2 == OnMessage(World, TextObj(obj), coin) IN
              /\ w2.session.phi_rate \in 0..100
              /\ OpName(obj.op) # "heartbeat" => w2.session.phi_rate = session.phi_rate
              /\ ( /\ Dispatched
                   /\ OpName(obj.op) = "heartbeat"
                   /\ IsNum(obj.phiRate)
                   /\ PhiHundredths(obj.phiRate) \notin 0..100 ) =>
                     w2.session.phi_rate = NearestBound(obj.phiRate)

\* A heartbeat reported a value above 1 and the upper bound was stored.
C11_UpperBoundStored ==
    /\ METRICS.heartbeat_total = 1
    /\ session.phi_rate = 100
    /\ session.last_phi_rate = 100

\* The range alone: the responsiveness value and the last accepted value
\* are within [0,1] in every reachable state and after every message.
PhiRateInRange ==
    /\ session.phi_rate \in 0..100
    /\ session.last_phi_rate \in 0..100
    /\ Receiving =>
          \A obj \in InboundObjs, coin \in BOOLEAN :
              LET w2 == OnMessage(World, TextObj(obj), coin) IN
              /\ w2.session.phi_rate \in 0..100
              /\ w2.session.last_phi_rate \in 0..100

\* Client timestamps with the latency each must give: 200 ms ago in
\* milliseconds, a whole second count (read as seconds), and timestamps
\* ahead of the server clock in either unit
StampedLatencies ==
    { << JInt(now - 200), 200 >>,
      << JFloat((now - 500) * 100), 500 >>,
      << JInt(now \div 1000 - 1), now - (now \div 1000 - 1) * 1000 >>,
      << JInt(now + 500), 0 >>,
      << JInt(now \div 1000 + 2), 0 >> }

ReportedRates == {JFloat(90), JFloat(70), JFloat(55), JInt(0), JInt(1), JInt(2), JFloat(-50)}

\* C12: a heartbeat with a numeric ts and a numeric phiRate p leaves the
\* responsiveness at p clamped into [0,1] (0.9 and 0.7 are stored as they
\* are), the latency at now minus the client timestamp in ms (never
\* negative), the last-heartbeat timestamp at now, and is answered with one
\* pong.
C12_HeartbeatApplied ==
    (Receiving /\ Dispatched) =>
        \A stamped \in StampedLatencies, p \in ReportedRates, coin \in BOOLEAN :
            LET obj == [Op("heartbeat") EXCEPT !.ts = stamped[1], !.phiRate = p]
                w2 == OnMessage(World, TextObj(obj), coin)
            IN  /\ w2.session.phi_rate = NearestBound(p)
                /\ w2.session.latency_ms = stamped[2]
                /\ w2.session.last_heartbeat_ts = now
                /\ Answers(w2) = << Payload("pong") >>
                /\ HandlerDone(w2)

\* A heartbeat sent 200 ms ago with phiRate 0.9 was handled after the
\* clock had moved on: responsiveness, latency and last heartbeat are set
\* and the pong is queued.
C12_HeartbeatHandled ==
    /\ METRICS.heartbeat_total = 1
    /\ session.phi_rate = 90
    /\ session.latency_ms = 200
    /\ session.last_heartbeat_ts = now /\ now > T0
    /\ \E i \in 1..Len(tx_queue) : tx_queue[i].op = "pong"

(***************************************************************************)
(* The runs that drive the cadence: a heartbeat sets the session's         *)
(* responsiveness and latency, the clock moves by a short step or past the *)
(* heartbeat timeout, and the pump applies frame_interval_seconds to what   *)
(* the heartbeat left.                                                     *)
(***************************************************************************)
CadenceMsgsMax == 1
CadenceTicksMax == 2
CadenceRounds == 2
ShortStep == 500
SilenceStep == 21000
LatencyCeiling == 400

CadenceHeartbeats ==
    { [Op("heartbeat") EXCEPT !.ts = ts, !.phiRate = phi] :
        ts \in {Absent, JInt(now - 200), JInt(now - LatencyCeiling)},
        phi \in {Absent, JInt(0), JInt(1)} }

InitCadence ==
    InitWith({FALSE}, {""}, {""}, BatchMax, InitialBuckets,
             [msgs |-> CadenceMsgsMax, ticks |-> CadenceTicksMax,
              rounds |-> CadenceRounds])

NextCadence ==
    \/ \E obj \in CadenceHeartbeats : RxRecv(TextObj(obj), FALSE)
    \/ RxAccept(TRUE)
    \/ Resumptions
    \/ PumpSteps
    \/ TxGet
    \/ TxSendDone
    \/ \E d \in {ShortStep, SilenceStep} : Tick(d)

SpecCadence == InitCadence /\ [][NextCadence]_vars

(***************************************************************************)
(* The phiRate check on its own: PhiMsgs heartbeats one after the other,   *)
(* each reporting a rate on either side of last_phi_rate +/- 0.1 or out of *)
(* [0,1], with both outcomes of random.random() < 0.05.                    *)
(***************************************************************************)
PhiMsgs == 2
PhiRates == {-50, 0, 39, 40, 45, 50, 55, 60, 61, 100, 150}

PhiHeartbeats ==
    { [Op("heartbeat") EXCEPT !.phiRate = phi] :
        phi \in {Absent, JInt(1)} \cup {JFloat(r) : r \in PhiRates} }

InitPhi ==
    InitWith({FALSE}, {""}, {""}, BatchMax, InitialBuckets,
             [msgs |-> PhiMsgs, ticks |-> 0, rounds |-> 0])

NextPhi ==
    \/ \E obj \in PhiHeartbeats, coin \in BOOLEAN : RxRecv(TextObj(obj), coin)
    \/ RxAccept(TRUE)
    \/ QueueResumptions
    \/ TxGet
    \/ TxSendDone

SpecPhi == InitPhi /\ [][NextPhi]_vars

(***************************************************************************)
(* frame_interval_seconds on its own: a heartbeat draws the responsiveness *)
(* from every hundredth of [0,1] and the latency from both sides of the    *)
(* two latency thresholds, and the pump's first round computes the         *)
(* interval from them.                                                      *)
(***************************************************************************)
RateSteps == 100
IntervalLatencies == {0, 100, 150, 151, 200, 300, 301, 1000}

IntervalHeartbeats ==
    { [Op("heartbeat") EXCEPT !.ts = ts, !.phiRate = JFloat(r)] :
        ts \in {Absent} \cup {JInt(now - l) : l \in IntervalLatencies \ {0}},
        r \in 0..RateSteps }

InitInterval ==
    InitWith({FALSE}, {""}, {""}, BatchMax, InitialBuckets,
             [msgs |-> 1, ticks |-> 0, rounds |-> 1])

NextInterval ==
    \/ \E obj \in IntervalHeartbeats : RxRecv(TextObj(obj), FALSE)
    \/ RxAccept(TRUE)
    \/ \E t \in Tasks : ToThreadDone(t)
    \/ PumpStart

SpecInterval == InitInterval /\ [][NextInterval]_vars

\* C13: for every responsiveness r in [0,1] and latency l >= 0 the interval
\* is within [1/FRAME_HZ_MAX, 1/FRAME_HZ_MIN], no longer for a higher
\* responsiveness at the same latency, no shorter for a higher latency at
\* the same responsiveness, and the interval a pump round computes is the
\* one these two values determine, whatever the rest of the state.
C13_IntervalMonotoneBounded ==
    LET r == session.phi_rate
        l == session.latency_ms
        interval == frame_interval_seconds(r, l)
    IN  /\ interval >= 1000000 \div FRAME_HZ_MAX
        /\ interval <= 1000000 \div FRAME_HZ_MIN
        /\ \A r2 \in 0..RateSteps :
              r2 >= r => frame_interval_seconds(r2, l) <= interval
        /\ \A l2 \in IntervalLatencies :
              l2 >= l => frame_interval_seconds(r, l2) >= interval
        /\ task["pump"].at = "start" =>
              LET hz == PumpRoundBody(World).task["pump"].hz IN
              1000000000 \div hz = interval

\* A heartbeat left the highest responsiveness and a latency above the upper
\* threshold, and the pump has computed its interval from them: twice the
\* shortest interval.
C13_HalvedTopRate ==
    /\ session.phi_rate = RateSteps
    /\ session.latency_ms = 301
    /\ task["pump"].at = "phi_gen"
    /\ task["pump"].hz = FrameRateMilliHz(session.phi_rate, session.latency_ms)
    /\ frame_interval_seconds(session.phi_rate, session.latency_ms)
          = 2 * (1000000 \div FRAME_HZ_MAX)

\* More than the heartbeat timeout has passed since the last heartbeat (or
\* since the connection was accepted, if there was none)
PastHeartbeatTimeout ==
    now - session.last_heartbeat_ts > CLIENT_HEARTBEAT_TIMEOUT_SECS * 1000

\* The pump is at the top of its loop
PumpRoundBegins == task["pump"].at \in {"start", "sleep"} /\ session.running

FramesPlaced ==
    Cardinality({i \in 1..Len(tx_queue) : tx_queue[i].op = "frame"})
      + Cardinality({t \in Tasks : task[t].at = "put" /\ task[t].payload.op = "frame"})

\* C15: a frame is enqueued only when at least 80% of the session's current
\* interval has passed since the previous frame's send attempt, also when
\* the attempts of the pump and of requestFrame overlap.
C15_FramesSpacedByInterval ==
    [][ FramesPlaced' > FramesPlaced =>
            \/ session.last_frame_ts = 0
            \/ (now - session.last_frame_ts)
                  * FrameRateMilliHz(session.phi_rate, session.latency_ms) >= 8 * 100000
      ]_vars

\* Two frames were sent although the clock has not moved since the session
\* was accepted.
C15_TwoFramesAtOnce ==
    /\ METRICS.frames_total = 2
    /\ budget.ticks = MaxTicks
    /\ session.last_frame_ts = now

\* The ack of a requestFrame
RequestAck(sent) == [Payload("ack") EXCEPT !.sent = sent]

\* The ack is sent=true after the frame of the request, sent=false when
\* the attempt was turned down
RequestAckTellsOutcome ==
    /\ (Receiving /\ Dispatched) =>
          LET w2 == Handled(Op("requestFrame")) IN
          w2.task["rx"].at # "phi_gen" =>
              /\ Answers(w2) = << RequestAck(FALSE) >>
              /\ w2.frame_seq = frame_seq
    /\ (task["rx"].at = "phi_build" /\ task["rx"].sf.caller = "request") =>
          LET answers == Answers(OnFrameBuilt(World, "rx")) IN
          /\ Len(answers) \in 1..2
          /\ answers[1].op = "frame"
          /\ Len(answers) = 2 => answers[2] = RequestAck(TRUE)

\* C16: every requestFrame that passes the auth gate starts a send attempt
\* that goes on to generate a frame whatever the time since the last frame,
\* and is answered with one ack whose sent field tells whether a frame was
\* enqueued for it.
C16_RequestFrameNotGated ==
    /\ (Receiving /\ Dispatched) =>
          LET w2 == Handled(Op("requestFrame")) IN
          /\ w2.task["rx"].at = "phi_gen"
          /\ w2.task["rx"].sf.caller = "request"
    /\ RequestAckTellsOutcome

\* A requestFrame was answered with sent=false because the frame of an
\* earlier attempt had just been sent.
C16_RequestTurnedDown ==
    /\ session.last_frame_ts = now
    /\ METRICS.frames_total = 1
    /\ Receiving /\ Dispatched
    /\ Handled(Op("requestFrame")).task["rx"].at # "phi_gen"
    /\ \E i \in 1..Len(tx_queue) : tx_queue[i].op = "frame"

\* The data of the frames handed to enqueue and not yet taken
PlacedFrames ==
    {tx_queue[i].data : i \in {j \in 1..Len(tx_queue) : tx_queue[j].op = "frame"}}
      \cup {task[t].payload.data :
              t \in {u \in Tasks : task[u].at = "put" /\ task[u].payload.op = "frame"}}

\* C17: the last-sent snapshot changes only in a step that hands a frame to
\* the queue, and the frame handed over brings a client that held the
\* previous snapshot to exactly the new one; no other step (an iteration of
\* the batching loop, a failed or dropped send) changes it.
C17_SnapshotFollowsFrames ==
    [][ session'.last_matrix # session.last_matrix =>
            \E frame \in PlacedFrames' \ PlacedFrames :
                Applied(session.last_matrix, frame) = session'.last_matrix
      ]_vars

\* A batching iteration has replaced the snapshot by a matrix that is in no
\* frame: the frame about to be built carries an empty delta.
C17_SnapshotAheadOfClient ==
    \E t \in Tasks :
        /\ task[t].at = "phi_build"
        /\ task[t].sf.use_delta
        /\ task[t].sf.payload_matrix = EmptyMatrix
        /\ session.last_matrix = task[t].sf.nxt
        /\ session.last_matrix # task[t].sf.matrix

\* C18: frames_total = frames_full_total + frames_delta_total in every
\* reachable state: the step that counts an enqueued frame adds 1 to
\* frames_total and 1 to exactly one of the two other counters, and sets
\* the last-frame timestamp to the time of the send attempt.
C18_FrameCountersAddUp ==
    /\ [](METRICS.frames_total = METRICS.frames_full_total + METRICS.frames_delta_total)
    /\ [][ METRICS'.frames_total # METRICS.frames_total =>
              /\ METRICS'.frames_total = METRICS.frames_total + 1
              /\ METRICS'.frames_full_total >= METRICS.frames_full_total
              /\ METRICS'.frames_delta_total >= METRICS.frames_delta_total
              /\ METRICS'.frames_full_total + METRICS'.frames_delta_total
                    = METRICS.frames_full_total + METRICS.frames_delta_total + 1
              /\ \E t \in Tasks : /\ task[t].sf.caller # ""
                                  /\ session'.last_frame_ts = task[t].sf.now
       ]_vars

\* Two frames were enqueued and counted, the second a delta frame with no
\* changed cell: it is in neither of the two counters.
C18_EmptyDeltaUncounted ==
    /\ METRICS.frames_total = 2
    /\ METRICS.frames_full_total = 1
    /\ METRICS.frames_delta_total = 0

\* The step that counts a frame, apart from the choice of the second counter
FrameCountedOnce ==
    [][ METRICS'.frames_total # METRICS.frames_total =>
              /\ METRICS'.frames_total = METRICS.frames_total + 1
              /\ METRICS'.frames_full_total + METRICS'.frames_delta_total
                    \in { METRICS.frames_full_total + METRICS.frames_delta_total,
                          METRICS.frames_full_total + METRICS.frames_delta_total + 1 }
              /\ \E t \in Tasks : /\ task[t].sf.caller # ""
                                  /\ session'.last_frame_ts = task[t].sf.now
       ]_vars

(***************************************************************************)
(* calculate_delta, where send_frame_if_due applies it                     *)
(***************************************************************************)
\* generate_frame is running for task t
Generating(t) == task[t].at \in {"phi_gen", "phi_gen2"}

\* The locals of task t once generate_frame has returned m and the diff of
\* m against the last-sent snapshot has been taken
Diffed(t, m) ==
    IF task[t].at = "phi_gen"
    THEN OnGenerated(World, t, m).task[t].sf
    ELSE OnGenerated2(World, t, m).task[t].sf

\* C19: the diff of a non-empty snapshot against an identical previous
\* snapshot is the empty change set, flagged as a delta.
C19_DiffOfIdenticalIsEmptyDelta ==
    /\ \A m \in AllMatrices :
          calculate_delta(m, m) = [delta |-> EmptyMatrix, is_delta |-> TRUE]
    /\ \A t \in Tasks :
          ( /\ Generating(t)
            /\ session.last_matrix # EmptyMatrix
            /\ DOMAIN session.last_matrix = task[t].sf.keys ) =>
              LET sf == Diffed(t, session.last_matrix) IN
              /\ sf.delta = EmptyMatrix
              /\ task[t].at = "phi_gen" => sf.use_delta

\* generate_frame returned the snapshot that was last sent: the diff is
\* empty and the frame will be a delta frame.
C19_UnchangedMatrixDiffed ==
    \E t \in Tasks :
        /\ task[t].at = "phi_delta"
        /\ task[t].sf.matrix = session.last_matrix
        /\ session.last_matrix # EmptyMatrix
        /\ task[t].sf.delta = EmptyMatrix
        /\ task[t].sf.use_delta

\* delta holds exactly the cells of current that are new or changed with
\* respect to previous
ChangedCellsOnly(delta, current, previous) ==
    /\ DOMAIN delta \subseteq DOMAIN current
    /\ \A k \in DOMAIN current :
          k \in DOMAIN delta <=> (k \notin DOMAIN previous \/ current[k] # previous[k])
    /\ \A k \in DOMAIN delta : delta[k] = current[k]
    /\ \A k \in DOMAIN previous \ DOMAIN current : k \notin DOMAIN delta
    /\ \A k \in DOMAIN current \cap DOMAIN previous :
          current[k] = previous[k] => k \notin DOMAIN delta

\* C20: when a previous snapshot exists, the delta maps exactly the keys of
\* the current snapshot whose cell is absent from or different in the
\* previous one to their current cell; a key only in the previous snapshot
\* and an unchanged key are not in the delta.
C20_DeltaIsChangedCells ==
    /\ \A current \in AllMatrices, previous \in AllMatrices :
          LET d == calculate_delta(current, previous) IN
          d.is_delta /\ ChangedCellsOnly(d.delta, current, previous)
    /\ \A t \in Tasks :
          (Generating(t) /\ session.last_matrix # EmptyMatrix) =>
              \A m \in MatricesOf(task[t].sf.keys) :
                  LET sf == Diffed(t, m) IN
                  /\ ChangedCellsOnly(sf.delta, m, session.last_matrix)
                  /\ task[t].at = "phi_gen" => sf.use_delta

\* The view was shrunk after a frame: the previous snapshot has a key the
\* current matrix has not, and the delta holds the one changed cell.
C20_KeyOnlyInPrevious ==
    \E t \in Tasks :
        /\ task[t].at = "phi_delta"
        /\ task[t].sf.use_delta
        /\ DOMAIN session.last_matrix \ DOMAIN task[t].sf.matrix # {}
        /\ DOMAIN task[t].sf.delta = {"0,0"}
        /\ task[t].sf.delta["0,0"] = task[t].sf.matrix["0,0"]

\* C21: with no previous snapshot the diff is the whole current matrix,
\* not flagged as delta, and the first frame handed to the queue is a full
\* frame; once a snapshot exists every frame handed to the queue is
\* flagged as delta.
C21_FirstFullThenDelta ==
    /\ [](\A t \in Tasks :
            (task[t].at = "phi_gen" /\ session.last_matrix = EmptyMatrix) =>
                \A m \in MatricesOf(task[t].sf.keys) :
                    /\ Diffed(t, m).delta = m
                    /\ ~Diffed(t, m).use_delta)
    /\ [][ \A frame \in PlacedFrames' \ PlacedFrames :
              frame.delta <=> session.last_matrix # EmptyMatrix ]_vars

\* Two full frames of one session are on their way: the second was handed
\* to the queue after the first had set the snapshot.
C21_SecondFullFrame ==
    /\ session.last_matrix # EmptyMatrix
    /\ \E f1 \in PlacedFrames, f2 \in PlacedFrames :
          f1.seq < f2.seq /\ ~f1.delta /\ ~f2.delta

(***************************************************************************)
(* The audit ledger (server.py:159-223), shared by all sessions            *)
(***************************************************************************)
ANCHOR_INTERVAL == 64

\* Events recorded in a run of the sequential and of the interleaved ledger
SeqEvents == 145
LedgerEvents == 20
MaxProofIndex == 10

\* hashlib.sha256(data).digest(), taken as collision-free: the digest is
\* kept as the data it was computed from
_hash(data) == [sha256 |-> data]

\* b'\x00'
ZeroByte == [sha256 |-> "00"]

\* _build_node(children): up to four children, padded with zero bytes
_build_node(children) ==
    _hash(children \o [i \in 1..(4 - Len(children)) |-> ZeroByte])

\* One pass of "while len(level) > 1": the nodes over groups of four
NewLevel(level) ==
    [i \in 1..((Len(level) + 3) \div 4) |->
        _build_node(SubSeq(level, 4 * i - 3, Min(4 * i, Len(level))))]

RECURSIVE LevelNodes(_)
LevelNodes(level) ==
    IF Len(level) <= 1 THEN <<>>
    ELSE NewLevel(level) \o LevelNodes(NewLevel(level))

RECURSIVE LevelPeaks(_)
LevelPeaks(level) ==
    IF Len(level) <= 1 THEN <<>>
    ELSE << _hash(NewLevel(level)) >> \o LevelPeaks(NewLevel(level))

\* _rebuild_mmr(): nodes and peak_hashes recomputed from the leaves
_rebuild_mmr(m) ==
    IF m.leaves = <<>> THEN [m EXCEPT !.nodes = <<>>]
    ELSE [m EXCEPT !.nodes = LevelNodes(m.leaves),
                   !.peak_hashes = LevelPeaks(m.leaves)]

\* get_proof(leaf_idx) (server.py:202-208): a Python list index below zero
\* counts from the end
get_proof(m, leaf_idx) ==
    LET n == Len(m.leaves) IN
    IF leaf_idx >= n
    THEN [leaf_idx |-> leaf_idx, outcome |-> "ValueError", leaf |-> <<>>]
    ELSE IF leaf_idx >= 0
    THEN [leaf_idx |-> leaf_idx, outcome |-> "proof", leaf |-> <<m.leaves[leaf_idx + 1]>>]
    ELSE IF leaf_idx >= -n
    THEN [leaf_idx |-> leaf_idx, outcome |-> "proof", leaf |-> <<m.leaves[n + leaf_idx + 1]>>]
    ELSE [leaf_idx |-> leaf_idx, outcome |-> "IndexError", leaf |-> <<>>]

\* Everything but the ledger
session_vars == << cfg, session, tx_queue, putters, METRICS, task, tx, conn, now,
                   current_bucket, leaves, frame_seq, next_id, wire, client, budget,
                   builds >>

\* log_event up to its suspension (server.py:217-222): the event, known by
\* its number, is appended to the pending bucket; a full bucket is copied
\* and handed to MMR.append_bucket in a worker thread
LogEvent(c, limit) ==
    /\ logger[c].at = "idle"
    /\ recorded < limit
    /\ LET bucket == Append(MMR.current_bucket, recorded + 1) IN
          /\ MMR' = [MMR EXCEPT !.current_bucket = bucket]
          /\ logger' = IF Len(bucket) >= MMR_BUCKET_SIZE
                       THEN [logger EXCEPT ![c] = [NewLogger EXCEPT !.at = "append",
                                                                    !.bucket = bucket]]
                       ELSE logger
    /\ recorded' = recorded + 1
    /\ UNCHANGED << session_vars, proof, anchored >>

\* append_bucket in the worker thread: the bucket is hashed and the leaf
\* appended (server.py:176-177)
ThreadAppend(c) ==
    /\ logger[c].at = "append"
    /\ MMR' = [MMR EXCEPT !.leaves = Append(@, _hash(logger[c].bucket))]
    /\ logger' = [logger EXCEPT ![c].at = "rebuild"]
    /\ UNCHANGED << session_vars, proof, anchored, recorded >>

\* append_bucket: self._rebuild_mmr() (server.py:178)
ThreadRebuild(c) ==
    /\ logger[c].at = "rebuild"
    /\ MMR' = _rebuild_mmr(MMR)
    /\ logger' = [logger EXCEPT ![c].at = "index"]
    /\ UNCHANGED << session_vars, proof, anchored, recorded >>

\* append_bucket: the index is read off the leaves, the anchor is logged
\* when it is due and there is a peak (server.py:179-182, 210-213)
ThreadIndex(c) ==
    /\ logger[c].at = "index"
    /\ LET idx == Len(MMR.leaves) - 1 IN
          /\ logger' = [logger EXCEPT ![c].at = "returned", ![c].idx = idx]
          /\ anchored' =
                IF idx % (ANCHOR_INTERVAL \div MMR_BUCKET_SIZE) = 0
                   /\ MMR.peak_hashes # <<>>
                THEN Append(anchored, [leaves |-> Len(MMR.leaves),
                                       root |-> MMR.peak_hashes[Len(MMR.peak_hashes)]])
                ELSE anchored
    /\ UNCHANGED << session_vars, MMR, proof, recorded >>

\* A return that leaves the pending bucket as it is
ThreadReturnKeepsBucket(c) ==
    /\ logger[c].at = "returned"
    /\ logger' = [logger EXCEPT ![c] = NewLogger]
    /\ UNCHANGED << session_vars, MMR, proof, anchored, recorded >>

\* to_thread returned to log_event: the pending bucket is replaced by an
\* empty one (server.py:223)
ThreadReturn(c) ==
    /\ logger[c].at = "returned"
    /\ MMR' = [MMR EXCEPT !.current_bucket = <<>>]
    /\ logger' = [logger EXCEPT ![c] = NewLogger]
    /\ UNCHANGED << session_vars, proof, anchored, recorded >>

\* MMR.get_proof(leaf_idx), called between two record calls
GetProof(leaf_idx) ==
    /\ \A c \in Sessions : logger[c].at = "idle"
    /\ proof' = get_proof(MMR, leaf_idx)
    /\ UNCHANGED << session_vars, MMR, logger, anchored, recorded >>

ThreadSteps ==
    \/ \E c \in Sessions : ThreadAppend(c)
    \/ \E c \in Sessions : ThreadRebuild(c)
    \/ \E c \in Sessions : ThreadIndex(c)
    \/ \E c \in Sessions : ThreadReturn(c)

InitLedger ==
    InitWith({FALSE}, {""}, {""}, BatchMax, InitialBuckets,
             [msgs |-> 0, ticks |-> 0, rounds |-> 0])

\* Events recorded one after another: a record call starts only when no
\* other is in progress
NextLedgerSeq ==
    \/ \E c \in Sessions :
          (\A d \in Sessions : logger[d].at = "idle") /\ LogEvent(c, SeqEvents)
    \/ ThreadSteps
    \/ \E leaf_idx \in -2..MaxProofIndex : GetProof(leaf_idx)

SpecLedgerSeq == InitLedger /\ [][NextLedgerSeq]_vars

\* Record calls of several sessions, interleaved at the suspension point
NextLedger ==
    \/ \E c \in Sessions : LogEvent(c, LedgerEvents)
    \/ ThreadSteps

SpecLedger == InitLedger /\ [][NextLedger]_vars

(***************************************************************************)
(* _rebuild_mmr statement by statement (server.py:184-200).  The calls of  *)
(* append_bucket run in threads of asyncio.to_thread with no lock, and     *)
(* interleaved record calls have more than one of them under way: "level"  *)
(* and "peaks" are locals of a call, self.nodes and self.peak_hashes are   *)
(* shared.  A step here is at least one statement of the code, so every    *)
(* interleaving of these steps is one of the threads.                      *)
(***************************************************************************)
\* self.nodes = []; peaks = []; level = self.leaves[:]
RebuildBegin(c) ==
    /\ logger[c].at = "rebuild"
    /\ MMR' = [MMR EXCEPT !.nodes = <<>>]
    /\ logger' = [logger EXCEPT ![c].at = "level", ![c].level = MMR.leaves,
                                 ![c].peaks = <<>>]
    /\ UNCHANGED << session_vars, proof, anchored, recorded >>

\* One pass of "while len(level) > 1": every node of the new level goes to
\* the list self.nodes names now, the peak to the local list
RebuildLevel(c) ==
    /\ logger[c].at = "level"
    /\ Len(logger[c].level) > 1
    /\ LET new_level == NewLevel(logger[c].level) IN
          /\ MMR' = [MMR EXCEPT !.nodes = @ \o new_level]
          /\ logger' = [logger EXCEPT ![c].level = new_level,
                                       ![c].peaks = Append(@, _hash(new_level))]
    /\ UNCHANGED << session_vars, proof, anchored, recorded >>

\* The loop is left: self.peak_hashes = peaks
RebuildEnd(c) ==
    /\ logger[c].at = "level"
    /\ Len(logger[c].level) <= 1
    /\ MMR' = [MMR EXCEPT !.peak_hashes = logger[c].peaks]
    /\ logger' = [logger EXCEPT ![c].at = "index", ![c].level = <<>>, ![c].peaks = <<>>]
    /\ UNCHANGED << session_vars, proof, anchored, recorded >>

\* Record calls of several sessions with the threads of append_bucket
\* interleaved
NextRebuild ==
    \/ \E c \in Sessions : LogEvent(c, LedgerEvents)
    \/ \E c \in Sessions : ThreadAppend(c)
    \/ \E c \in Sessions : RebuildBegin(c)
    \/ \E c \in Sessions : RebuildLevel(c)
    \/ \E c \in Sessions : RebuildEnd(c)
    \/ \E c \in Sessions : ThreadIndex(c)
    \/ \E c \in Sessions : ThreadReturn(c)

SpecRebuild == InitLedger /\ [][NextRebuild]_vars

(***************************************************************************)
(* Ledger claims                                                           *)
(***************************************************************************)
\* No record call is in progress
NoneRecording == \A c \in Sessions : logger[c].at = "idle"

\* The events numbered first..last, in order
EventRun(first, last) == [i \in 1..(last - first + 1) |-> first + i - 1]

\* C22: with record calls one after another, after B * MMR_BUCKET_SIZE
\* events there are exactly B leaves and the pending bucket is empty
\* (between multiples it holds the events since the last leaf); a proof for
\* index B-1 succeeds with that leaf's hash and a proof for index B fails;
\* the index append_bucket returns is that of the leaf it appended, for
\* which a proof succeeds.
C22_SequentialLedger ==
    /\ NoneRecording =>
          LET B == recorded \div MMR_BUCKET_SIZE IN
          /\ Len(MMR.leaves) = B
          /\ MMR.current_bucket = EventRun(B * MMR_BUCKET_SIZE + 1, recorded)
          /\ recorded % MMR_BUCKET_SIZE = 0 => MMR.current_bucket = <<>>
          /\ B >= 1 => get_proof(MMR, B - 1) =
                          [leaf_idx |-> B - 1, outcome |-> "proof",
                           leaf |-> << MMR.leaves[B] >>]
          /\ get_proof(MMR, B).outcome = "ValueError"
    /\ \A c \in Sessions :
          logger[c].at = "returned" =>
              LET idx == logger[c].idx IN
              /\ idx = Len(MMR.leaves) - 1
              /\ MMR.leaves[idx + 1] = _hash(logger[c].bucket)
              /\ get_proof(MMR, idx).outcome = "proof"
              /\ get_proof(MMR, idx).leaf = << _hash(logger[c].bucket) >>

\* Two buckets' worth of events were recorded, and the proof of the second
\* leaf was requested and returned.
C22_TwoLeavesProved ==
    /\ NoneRecording
    /\ recorded = 2 * MMR_BUCKET_SIZE
    /\ Len(MMR.leaves) = 2
    /\ MMR.current_bucket = <<>>
    /\ proof = [leaf_idx |-> 1, outcome |-> "proof", leaf |-> << MMR.leaves[2] >>]

\* A proof request has just been answered
ProofAnswered == proof' # proof

\* C23: a proof request for an index with no leaf (any integer outside
\* 0..leaf count - 1, negative ones and any index on an empty ledger
\* included) fails with an out-of-range error and leaves leaves, nodes,
\* peaks and pending bucket as they were.
C23_ProofFailsOffRange ==
    [][ (ProofAnswered /\ proof'.leaf_idx \notin 0..(Len(MMR.leaves) - 1)) =>
            /\ proof'.outcome \in {"ValueError", "IndexError"}
            /\ MMR' = MMR ]_vars

\* A request for a negative index was answered with a proof
C23_NegativeIndexProved ==
    /\ proof.leaf_idx < 0
    /\ proof.outcome = "proof"
    /\ proof.leaf = << MMR.leaves[Len(MMR.leaves) + proof.leaf_idx + 1] >>

\* The part of C23 that holds: a request at or past the leaf count, or
\* further below zero than there are leaves, fails, and no request changes
\* the ledger.
ProofBeyondLeavesFails ==
    [][ ProofAnswered =>
            /\ MMR' = MMR
            /\ proof'.leaf_idx >= Len(MMR.leaves) => proof'.outcome = "ValueError"
            /\ proof'.leaf_idx < 0 - Len(MMR.leaves) => proof'.outcome = "IndexError" ]_vars

\* The events of a sequence
Range(seq) == {seq[i] : i \in 1..Len(seq)}

\* The positions of the leaves whose bucket holds event e
LeavesHolding(e) == {i \in 1..Len(MMR.leaves) : e \in Range(MMR.leaves[i].sha256)}

\* C24: with record calls of several sessions interleaved at suspension
\* points, once no call is in progress every recorded event is in exactly
\* one place: the bucket of exactly one leaf, or the pending bucket.
C24_EveryEventInOnePlace ==
    NoneRecording =>
        \A e \in 1..recorded :
            \/ Cardinality(LeavesHolding(e)) = 1 /\ e \notin Range(MMR.current_bucket)
            \/ LeavesHolding(e) = {} /\ e \in Range(MMR.current_bucket)

\* No call is in progress and one event was hashed into two leaves
C24_EventInTwoLeaves ==
    /\ NoneRecording
    /\ \E e \in 1..recorded : Cardinality(LeavesHolding(e)) = 2

\* No call is in progress and a recorded event is in no leaf and not pending
C24_EventLost ==
    /\ NoneRecording
    /\ \E e \in 1..recorded : LeavesHolding(e) = {} /\ e \notin Range(MMR.current_bucket)

\* The leaves before a step are the first leaves after it, unchanged
LeavesKept == SubSeq(MMR'.leaves, 1, Len(MMR.leaves)) = MMR.leaves

\* C25: in every reachable state, interleaved record calls included, each
\* leaf is the hash of a bucket of exactly MMR_BUCKET_SIZE events (a bucket
\* with fewer events is never appended), and the leaf sequence only grows:
\* a leaf keeps its position and value.
C25_LeavesOfFullBucketsOnly ==
    /\ [](\A i \in 1..Len(MMR.leaves) : Len(MMR.leaves[i].sha256) = MMR_BUCKET_SIZE)
    /\ [][ Len(MMR'.leaves) >= Len(MMR.leaves) /\ LeavesKept ]_vars

\* A leaf is the hash of a bucket of more than MMR_BUCKET_SIZE events
C25_OversizedLeaf ==
    \E i \in 1..Len(MMR.leaves) : Len(MMR.leaves[i].sha256) > MMR_BUCKET_SIZE

\* The part of C25 that holds: no leaf is the hash of fewer than
\* MMR_BUCKET_SIZE events, and the leaf sequence only grows.
LeavesAppendOnly ==
    /\ [](\A i \in 1..Len(MMR.leaves) : Len(MMR.leaves[i].sha256) >= MMR_BUCKET_SIZE)
    /\ [][ Len(MMR'.leaves) >= Len(MMR.leaves) /\ LeavesKept ]_vars

\* Leaves per anchor period
AnchorPeriod == ANCHOR_INTERVAL \div MMR_BUCKET_SIZE

\* The top-level peak hash of a ledger holding the first n leaves
TopPeak(n) == LET peaks == LevelPeaks(SubSeq(MMR.leaves, 1, n)) IN peaks[Len(peaks)]

\* C26: an anchor is emitted exactly when the leaf count reaches a multiple
\* of the anchor period (every 4 leaves, every 64 events), carrying the
\* top-level peak hash of that moment, and at no other leaf count: the
\* first at the 4th leaf and one per period after it.
C26_AnchorEveryPeriod ==
    NoneRecording =>
        /\ Len(anchored) = Len(MMR.leaves) \div AnchorPeriod
        /\ \A i \in 1..Len(anchored) :
              /\ anchored[i].leaves = i * AnchorPeriod
              /\ anchored[i].root = TopPeak(i * AnchorPeriod)

\* Four leaves were appended one after another and no anchor was emitted
C26_FourLeavesNoAnchor ==
    /\ NoneRecording
    /\ Len(MMR.leaves) = AnchorPeriod
    /\ recorded = ANCHOR_INTERVAL
    /\ anchored = <<>>

\* What append_bucket does: the anchor comes one leaf after each multiple
\* of the period (leaf counts 5, 9, ...), with the top-level peak hash of
\* that moment; none at the first leaf, where there is no peak.
AnchorOneLeafLate ==
    NoneRecording =>
        /\ Len(anchored) = (Max(Len(MMR.leaves), 1) - 1) \div AnchorPeriod
        /\ \A i \in 1..Len(anchored) :
              /\ anchored[i].leaves = i * AnchorPeriod + 1
              /\ anchored[i].root = TopPeak(i * AnchorPeriod + 1)

(***************************************************************************)
(* The runs in which an audit record can fail: asyncio.to_thread raises    *)
(* instead of returning.  The connect event fills the bucket in the runs   *)
(* that start one event short of a full bucket.                            *)
(***************************************************************************)
\* asyncio.to_thread(MMR.append_bucket, ...) raised: the exception leaves
\* log_event with the bucket as it is.  The connect record (server.py:525)
\* and the disconnect record (server.py:561) are outside the try block, so
\* the exception ends handle_ws; a record made by handle_op is inside it.
RecordRaises ==
    /\ task["rx"].at = "to_thread"
    /\ IF task["rx"].cont \in {"hello", "closed"}
       THEN Commit([World EXCEPT !.task["rx"].at = "closed",
                                 !.task["rx"].cont = ""])
       ELSE Commit(Raise(World))
    /\ UNCHANGED << cfg, conn, now, wire, budget >>

AuditBuckets == {MMR_BUCKET_SIZE - 1, MMR_BUCKET_SIZE - 2}

InitAudit ==
    InitWith({FALSE}, {""}, {""}, BatchMax, AuditBuckets,
             [msgs |-> MaxMsgs, ticks |-> MaxTicks, rounds |-> MaxPumpRounds])

NextAudit ==
    \/ \E msg \in CoreMsgs, coin \in BOOLEAN : RxRecv(msg, coin)
    \/ RxSteps
    \/ Resumptions
    \/ RecordRaises
    \/ PumpSteps
    \/ TxSteps
    \/ ClientClose
    \/ \E d \in TickSteps : Tick(d)

SpecAudit == InitAudit /\ [][NextAudit]_vars

(***************************************************************************)
(* The runs with fair scheduling.  The event loop runs every ready task in *)
(* turn and every executor call returns, so a step of the receive task,    *)
(* of the pump or of the transmit worker that stays possible is taken.     *)
(* The client (messages, close) is under no such obligation.               *)
(***************************************************************************)
LiveMsgs == { TextObj(Op("requestFrame")), TextObj(Op("status")) }

InitLive ==
    InitWith({FALSE}, {""}, {""}, BatchMax, InitialBuckets,
             [msgs |-> MaxMsgs, ticks |-> 0, rounds |-> 1])

NextLive ==
    \/ \E msg \in LiveMsgs, coin \in BOOLEAN : RxRecv(msg, coin)
    \/ RxSteps
    \/ Resumptions
    \/ PumpStart
    \/ TxSteps
    \/ ClientClose

\* The steps of task t resuming from a suspension
TaskResumes(t) ==
    \/ PutResume(t)
    \/ ToThreadDone(t)
    \/ \E m \in AllMatrices : PhiGenDone(t, m)
    \/ PhiDeltaDone(t)
    \/ PhiBuildDone(t)
    \/ \E m \in AllMatrices : PhiGen2Done(t, m)
    \/ PhiDelta2Done(t)

RxProgress == RxSteps \/ TaskResumes("rx")
PumpProgress == PumpStart \/ TaskResumes("pump")

SpecLive ==
    /\ InitLive
    /\ [][NextLive]_vars
    /\ WF_vars(RxProgress)
    /\ WF_vars(PumpProgress)
    /\ WF_vars(TxSteps)

(***************************************************************************)
(* Global shutdown (server.py:713-741).  SIGINT or SIGTERM sets stop_event, *)
(* main leaves the "async with serve(...)" block, and the server closes    *)
(* every open connection as going away; handle_ws has no part in it.  The  *)
(* runs are those of SpecLive with the shutdown added, equally fair.       *)
(***************************************************************************)
Shutdown ==
    /\ conn = "open"
    /\ task["rx"].at \notin {"accept", "closed"}
    /\ conn' = "going_away"
    /\ UNCHANGED << cfg, session, tx_queue, putters, METRICS, task, tx, now,
                    current_bucket, leaves, frame_seq, next_id, wire, client, budget, ledger, builds >>

NextShutdown ==
    \/ NextLive
    \/ Shutdown

SpecShutdown ==
    /\ InitLive
    /\ [][NextShutdown]_vars
    /\ WF_vars(RxProgress)
    /\ WF_vars(PumpProgress)
    /\ WF_vars(TxSteps)

(***************************************************************************)
(* create_enhanced_holoframe call by call (proto_phi.py:295-328).  Every   *)
(* call runs on one of the four threads of the executor (server.py:243-    *)
(* 247), and PHI_ENGINE is shared by all sessions: "self.frame_seq += 1"   *)
(* is a read and a write of the shared counter, and "Sequence" reads it    *)
(* again after generate_emergence_sigil has run.  Nothing orders the calls *)
(* of different threads, so their steps interleave.                        *)
(***************************************************************************)
MaxBuilds == 4

rest_vars == << cfg, session, tx_queue, putters, METRICS, task, tx, conn, now,
                current_bucket, leaves, next_id, wire, client, budget, ledger >>

\* _phi_call hands the call to the executor
BuildBegin(b) ==
    /\ builder[b].at = "idle"
    /\ Len(built) + Cardinality({c \in Builders : builder[c].at # "idle"}) < MaxBuilds
    /\ builder' = [builder EXCEPT ![b].at = "load"]
    /\ UNCHANGED << rest_vars, frame_seq, built >>

\* self.frame_seq += 1: the read
BuildLoad(b) ==
    /\ builder[b].at = "load"
    /\ builder' = [builder EXCEPT ![b].at = "store", ![b].loaded = frame_seq]
    /\ UNCHANGED << rest_vars, frame_seq, built >>

\* self.frame_seq += 1: the write
BuildStore(b) ==
    /\ builder[b].at = "store"
    /\ frame_seq' = builder[b].loaded + 1
    /\ builder' = [builder EXCEPT ![b].at = "read"]
    /\ UNCHANGED << rest_vars, built >>

\* "Sequence": self.frame_seq
BuildRead(b) ==
    /\ builder[b].at = "read"
    /\ builder' = [builder EXCEPT ![b].at = "return", ![b].seq = frame_seq]
    /\ UNCHANGED << rest_vars, frame_seq, built >>

\* The frame is returned to send_frame_if_due, which enqueues it
BuildReturn(b) ==
    /\ builder[b].at = "return"
    /\ built' = Append(built, [session |-> SessionOf(b), seq |-> builder[b].seq])
    /\ builder' = [builder EXCEPT ![b] = NewBuilder]
    /\ UNCHANGED << rest_vars, frame_seq >>

BuildSteps ==
    \/ \E b \in Builders : BuildLoad(b)
    \/ \E b \in Builders : BuildStore(b)
    \/ \E b \in Builders : BuildRead(b)
    \/ \E b \in Builders : BuildReturn(b)

InitBuilds ==
    InitWith({FALSE}, {""}, {""}, BatchMax, InitialBuckets,
             [msgs |-> 0, ticks |-> 0, rounds |-> 0])

\* Builds on the worker pool, overlapping
NextBuilds ==
    \/ \E b \in Builders : BuildBegin(b)
    \/ BuildSteps

SpecBuilds == InitBuilds /\ [][NextBuilds]_vars

\* Builds one after the other
NextBuildsInTurn ==
    \/ \E b \in Builders : (\A c \in Builders : builder[c].at = "idle") /\ BuildBegin(b)
    \/ BuildSteps

SpecBuildsInTurn == InitBuilds /\ [][NextBuildsInTurn]_vars

(***************************************************************************)
(* Teardown claims                                                         *)
(***************************************************************************)
\* handle_ws has returned or raised
HandlerEnded == task["rx"].at = "closed"

\* handle_ws is in its finally block
TearingDown ==
    \/ task["rx"].at = "td_tx"
    \/ task["rx"].at \in {"to_thread", "put"} /\ task["rx"].cont = "closed"

\* The connection was accepted and handle_ws has not reached its finally
\* block
SessionLive == task["rx"].at \notin {"accept", "closed"} /\ ~TearingDown

\* C27: ws_connections_current is incremented once on accept and
\* decremented once at teardown, however the session ends (client close,
\* receive error, exception raised by a handler or by the connect-time
\* audit record): it is never negative, never above ws_connections_total,
\* 1 while the accepted session is live and 0 once its handler has ended.
C27_ConnectionsCounted ==
    /\ METRICS.ws_connections_current \in 0..METRICS.ws_connections_total
    /\ SessionLive => METRICS.ws_connections_current = 1
    /\ HandlerEnded => METRICS.ws_connections_current = 0

\* The connect record failed and handle_ws ended with the connection still
\* counted
C27_CountLeftAfterFailedConnect ==
    /\ HandlerEnded
    /\ tx.at = "none"
    /\ METRICS.ws_connections_total = 1
    /\ METRICS.ws_connections_current = 1

\* The part of C27 that holds: the counter stays within
\* 0..ws_connections_total, is 1 while the session is live, and is 0 when
\* the handler of a session whose tasks were started has ended.
ConnectionsCountedOnceStarted ==
    /\ METRICS.ws_connections_current \in 0..METRICS.ws_connections_total
    /\ SessionLive => METRICS.ws_connections_current = 1
    /\ (HandlerEnded /\ tx.at # "none") => METRICS.ws_connections_current = 0

\* The finally block of handle_ws has run to its end
TornDown == HandlerEnded /\ tx.at # "none"

\* C28: once the teardown of a session has completed the session is marked
\* not running and its pump and transmit tasks have terminated; from then
\* on nothing is enqueued on its outbound queue and nothing is sent on its
\* connection.
C28_QuietAfterTeardown ==
    /\ [](TornDown => /\ ~session.running
                      /\ task["pump"].at = "done"
                      /\ tx.at = "done"
                      /\ putters = <<>>)
    /\ [][ TornDown => /\ tx_queue' = tx_queue
                       /\ next_id' = next_id
                       /\ wire' = wire
                       /\ METRICS.msg_tx_total' = METRICS.msg_tx_total ]_vars

\* Teardown completed with messages still in the outbound queue, after the
\* pump had enqueued a frame
C28_TornDownWithQueuedFrame ==
    /\ TornDown
    /\ ~session.running
    /\ tx_queue # <<>>
    /\ METRICS.frames_total > 0

\* The transmit worker's last send raised
DeliveryFailed == tx.at = "sleep"

C30_BucketFlushedAtTeardown == TornDown => current_bucket = 0

\* Teardown completed with the disconnect event in the pending bucket
C30_DisconnectLeftPending ==
    /\ TornDown
    /\ current_bucket \in 1..(MMR_BUCKET_SIZE - 1)

\* What the finally block does: it records the disconnect event, which goes
\* to a leaf only if it is the one that fills the bucket.
DisconnectRecorded ==
    /\ [][ (task["rx"].at = "td_tx" /\ task'["rx"].at # "td_tx") =>
              /\ current_bucket' = current_bucket + 1
              /\ task'["rx"].at = "to_thread" <=> current_bucket' >= MMR_BUCKET_SIZE ]_vars
    /\ [](TornDown => current_bucket < MMR_BUCKET_SIZE)

(***************************************************************************)
(* Shutdown, ordering and gating claims                                    *)
(***************************************************************************)
\* The server closed the connection of a live session at shutdown
ShutDown == conn = "going_away"

C32_HelloFirst ==
    /\ [][ (next_id = 0 /\ next_id' > 0) =>
              /\ tx_queue' # <<>>
              /\ Head(tx_queue').op = "hello"
              /\ Head(tx_queue').id = 1 ]_vars
    /\ [][ (wire.last_id = 0 /\ wire'.last_id # 0) =>
              tx.payload.op = "hello" /\ tx.payload.id = 1 ]_vars
    /\ [](\A i \in 1..Len(tx_queue) :
              tx_queue[i].op = "hello" <=> tx_queue[i].id = 1)

\* hello was sent and a frame is the next message to send
C32_FrameBehindHello ==
    /\ wire.last_id = 1
    /\ METRICS.msg_tx_total = 1
    /\ tx_queue # <<>>
    /\ Head(tx_queue).op = "frame"

\* The view messages whose supplied fields int() accepts
ViewsAccepted ==
    {obj \in ViewMsgs :
        \A v \in {obj.width, obj.height, obj.z} : v = Absent \/ ~PyIntRaises(v)}

\* In w2 the send attempt of a view message is generating a frame for the
\* window of w2, or will once the ack is on the queue
ViewFrameUnderWay(w2) ==
    LET rx == w2.task["rx"] IN
    \/ rx.at = "put" /\ rx.payload.op = "ack" /\ rx.cont = "view_sf"
    \/ /\ rx.at = "phi_gen"
       /\ rx.sf.caller = "view"
       /\ rx.sf.keys = KeysOf(w2.session.width, w2.session.height)

\* The part of C33 that holds: the ack is the first thing a view message is
\* answered with, and the frame built for a view message is enqueued after
\* it with the dimensions of the new window.
ViewAckFirst ==
    /\ (Receiving /\ Dispatched) =>
          \A obj \in ViewsAccepted :
              LET w2 == Handled(obj) IN
              /\ Len(Answers(w2)) = 1
              /\ Answers(w2)[1].op = "ack"
    /\ (task["rx"].at = "phi_build" /\ task["rx"].sf.caller = "view") =>
          LET answers == Answers(OnFrameBuilt(World, "rx")) IN
          /\ Len(answers) = 1
          /\ answers[1].op = "frame"
          /\ answers[1].data.width = session.width
          /\ answers[1].data.height = session.height
          /\ answers[1].data.z = session.z_plane

\* C33: a view message is answered with its ack before any frame it
\* triggers: the ack is enqueued first, then a frame send for the new
\* window is attempted at once, without waiting for the pump, and a frame
\* for the new window is enqueued as a result.
C33_ViewAckThenFrame ==
    /\ (Receiving /\ Dispatched) =>
          \A obj \in ViewsAccepted : ViewFrameUnderWay(Handled(obj))
    /\ ViewAckFirst

\* A view message is acknowledged and no frame is generated for it, because
\* a frame had just been sent
C33_ViewFrameTurnedDown ==
    /\ session.last_frame_ts = now
    /\ METRICS.frames_total = 1
    /\ Receiving /\ Dispatched
    /\ \E obj \in ViewsAccepted :
          LET w2 == Handled(obj) IN
          /\ Answers(w2)[1].op = "ack"
          /\ w2.session.width # session.width
          /\ ~ViewFrameUnderWay(w2)
          /\ HandlerDone(w2)

\* The distance between two rates
Apart(a, b) == IF a >= b THEN a - b ELSE b - a

\* C34: a heartbeat whose reported phiRate differs from the last accepted
\* responsiveness by at most 0.1 is always accepted; only a larger change
\* can be rejected, and a rejected heartbeat leaves the responsiveness at
\* the last accepted value, so phi_rate = last_phi_rate after every
\* heartbeat.
C34_SmallChangeAlwaysAccepted ==
    /\ session.phi_rate = session.last_phi_rate
    /\ (Receiving /\ Dispatched) =>
          \A obj \in {o \in PhiHeartbeats : IsNum(o.phiRate)}, coin \in BOOLEAN :
              LET w2 == OnMessage(World, TextObj(obj), coin)
                  phi == PhiHundredths(obj.phiRate)
                  last == session.last_phi_rate
                  stored == Max(0, Min(100, phi))
              IN  /\ w2.session.phi_rate = w2.session.last_phi_rate
                  /\ Apart(phi, last) <= 10 => w2.session.phi_rate = stored
                  /\ w2.session.phi_rate # stored =>
                        /\ Apart(phi, last) > 10
                        /\ coin
                        /\ w2.session.phi_rate = last

\* The second heartbeat reported a rate 0.1 above the one the first had
\* left, and it was stored
C34_TenthChangeStored ==
    /\ METRICS.heartbeat_total = 2
    /\ session.phi_rate = 60
    /\ session.last_phi_rate = 60
    /\ task["rx"].at = "idle"

\* Task t is about to build the frame of an attempt whose delta is empty
EmptyDeltaAttempt(t) ==
    /\ task[t].at = "phi_build"
    /\ task[t].sf.use_delta
    /\ task[t].sf.payload_matrix = EmptyMatrix

\* The part of C35 that holds: the step that ends an attempt with an empty
\* delta leaves the last-sent snapshot as it is.
EmptyDeltaKeepsSnapshot ==
    \A t \in Tasks :
        EmptyDeltaAttempt(t) =>
            OnFrameBuilt(World, t).session.last_matrix = session.last_matrix

\* C35: when the delta against the session's last-sent snapshot is empty
\* nothing is sent: no frame message is enqueued for that send attempt and
\* the last-sent snapshot is unchanged.
C35_EmptyDeltaSendsNothing ==
    /\ \A frame \in PlacedFrames : frame.delta => frame.cells # EmptyMatrix
    /\ \A t \in Tasks :
          EmptyDeltaAttempt(t) =>
              LET w2 == OnFrameBuilt(World, t) IN
              /\ w2.next_id = next_id
              /\ w2.task[t].at # "put"
              /\ w2.tx_queue = tx_queue
    /\ EmptyDeltaKeepsSnapshot

\* A delta frame without cells is on the outbound queue
C35_EmptyDeltaFrameQueued ==
    \E i \in 1..Len(tx_queue) :
        /\ tx_queue[i].op = "frame"
        /\ tx_queue[i].data.delta
        /\ tx_queue[i].data.cells = EmptyMatrix

\* The client's snapshot agrees with snapshot m on every key of m
InStep(held, m) == \A k \in DOMAIN m : k \in DOMAIN held /\ held[k] = m[k]

\* A frame is placed on the outbound queue in this step
FramePlacedNow ==
    \E i \in 1..Len(tx_queue') : tx_queue'[i].op = "frame" /\ tx_queue'[i].id > next_id

\* C36: delta frames keep client and server in step: after every enqueued
\* frame the snapshot of a client that applied the frames of the session in
\* enqueue order (a full frame replaces, a delta frame overwrites the listed
\* cells) agrees with the last-sent snapshot on every key of that snapshot,
\* also when micro-batching merged several generated snapshots.
C36_ClientInStep ==
    [][ FramePlacedNow => InStep(client', session'.last_matrix) ]_vars

\* No send attempt is under way, every frame placed has been applied, and
\* the client's snapshot differs from the last-sent snapshot
C36_ClientOutOfStep ==
    /\ \A t \in Tasks : task[t].at \in {"idle", "sleep"}
    /\ METRICS.frames_total >= 2
    /\ ~InStep(client, session.last_matrix)

\* C37: when authentication is required no frame message is ever enqueued
\* for a session whose authenticated flag is false: the pump, started at
\* accept, and the view and requestFrame triggers deliver frames only after
\* an auth message has succeeded, and stop after a later one fails.
C37_NoFrameBeforeAuth ==
    [][ FramePlacedNow => (AUTH_REQUIRED => session'.auth_ok) ]_vars

\* Authentication is required, the session has not authenticated, and a
\* frame of the pump is on its outbound queue
C37_FrameForUnauthenticated ==
    /\ AUTH_REQUIRED
    /\ ~session.auth_ok
    /\ METRICS.auth_fail_total = 0
    /\ \E i \in 1..Len(tx_queue) : tx_queue[i].op = "frame"

\* The part of C37 that holds: a send attempt of the receive path (view,
\* requestFrame) is started only for an authenticated session.
TriggersBehindAuthGate ==
    [][ (task["rx"].at = "idle" /\ task'["rx"].at = "phi_gen") =>
            (AUTH_REQUIRED => session.auth_ok) ]_vars

\* No build is under way
NoneBuilding == \A b \in Builders : builder[b].at = "idle"

\* C38: frame sequence numbers are unique and increasing: the shared
\* counter is incremented once per constructed frame, no two frames (of the
\* same or of different sessions, built concurrently on the worker pool)
\* carry the same number, and the frames of one session reach its queue in
\* strictly increasing order of their numbers.
C38_SequenceUniqueIncreasing ==
    /\ NoneBuilding => frame_seq = Len(built)
    /\ \A i, j \in 1..Len(built) :
          i < j =>
              /\ built[i].seq # built[j].seq
              /\ built[i].session = built[j].session => built[i].seq < built[j].seq

\* Frames of two sessions carry the same sequence number
C38_SameNumberTwice ==
    \E i, j \in 1..Len(built) :
        /\ built[i].session # built[j].session
        /\ built[i].seq = built[j].seq

\* A frame of a session reached its queue behind one with a higher number
C38_SessionOutOfOrder ==
    \E i, j \in 1..Len(built) :
        /\ i < j
        /\ built[i].session = built[j].session
        /\ built[i].seq > built[j].seq

(***************************************************************************)
(* Progress claims                                                         *)
(***************************************************************************)
\* The most payloads a run of SpecLive places: hello, an ack and a frame
\* for every message, and the frame of the pump's round
MostPlaced == 2 * MaxMsgs + 2

\* The connection is no longer open, or handle_ws has returned and the
\* library is closing it
ConnectionGone == conn # "open" \/ HandlerEnded

\* Payload number k has been handed to the connection (the queue is FIFO
\* and the worker is its only consumer, C3)
Sent(k) == wire.last_id >= k

WaitingInPut(t) == task[t].at = "put"

\* C39: under fair scheduling, while the connection stays open and sends
\* succeed, every message placed on the outbound queue is eventually sent,
\* and neither the receive task nor the frame pump stays suspended for ever
\* in a put on the full queue.
C39_QueuedEventuallySent ==
    /\ [](next_id <= MostPlaced)
    /\ \A t \in Tasks : WaitingInPut(t) ~> (~WaitingInPut(t) \/ ConnectionGone)
    /\ \A k \in 1..MostPlaced : (next_id >= k) ~> (Sent(k) \/ ConnectionGone)

\* Both producers wait on the full queue of an open connection
C39_BothProducersWaiting ==
    /\ conn = "open"
    /\ QueueFull(World)
    /\ \A t \in Tasks : WaitingInPut(t)

(***************************************************************************)
(* Ledger structure claims                                                 *)
(***************************************************************************)
\* A call of append_bucket has appended its leaf and not finished the
\* rebuild
Rebuilding == \E c \in Sessions : logger[c].at \in {"rebuild", "level"}

\* The j-th child of the i-th group of four of level; past the end of the
\* level it is the padding
ChildOf(level, i, j) ==
    IF 4 * (i - 1) + j <= Len(level) THEN level[4 * (i - 1) + j] ELSE ZeroByte

\* nodes and peaks are what the levels above level hold, level by level
RECURSIVE BuiltOver(_, _, _)
BuiltOver(level, nodes, peaks) ==
    IF Len(level) <= 1
    THEN nodes = <<>> /\ peaks = <<>>
    ELSE LET m == Len(level)
             k == (m + 3) \div 4
         IN  /\ Len(nodes) >= k
             /\ Len(peaks) >= 1
             /\ \A i \in 1..k :
                   /\ Len(nodes[i].sha256) = 4
                   /\ \A j \in 1..4 : nodes[i].sha256[j] = ChildOf(level, i, j)
             /\ peaks[1] = _hash(SubSeq(nodes, 1, k))
             /\ BuiltOver(SubSeq(nodes, 1, k), SubSeq(nodes, k + 1, Len(nodes)),
                          Tail(peaks))

\* C40: after every append the ledger's internal nodes are those of a
\* rebuild level by level in groups of four: a level of m > 1 hashes gives
\* ceil(m/4) nodes, each over exactly four children, the last group padded
\* with zero bytes; one peak per level built; nothing above a level of a
\* single hash; with one leaf no node and no peak.
C40_RebuiltInGroupsOfFour ==
    ~Rebuilding => BuiltOver(MMR.leaves, MMR.nodes, MMR.peak_hashes)

\* No call is in progress and two leaves have two nodes above them
C40_NodeTwice ==
    /\ NoneRecording
    /\ Len(MMR.leaves) = 2
    /\ Len(MMR.nodes) = 2

\* No call is in progress and two leaves have no peak above them
C40_PeakMissing ==
    /\ NoneRecording
    /\ Len(MMR.leaves) = 2
    /\ MMR.peak_hashes = <<>>

\* With record calls one after another: nine leaves, a padded last group
\* and two levels built
NineLeavesRebuilt ==
    /\ NoneRecording
    /\ Len(MMR.leaves) = 9
    /\ Len(MMR.nodes) = 4
    /\ Len(MMR.peak_hashes) = 2
    /\ MMR.nodes[3].sha256 = << MMR.leaves[9], ZeroByte, ZeroByte, ZeroByte >>

====
